---- MODULE Spec2Model ----
(***************************************************************************)
(* A model of the PubMed citation pipeline of tbep-backend:                *)
(*   CitationsService.fetchWithRetry   (resilient HTTP GET)                *)
(*   CitationsService.jsonFallbackSearch / xmlSearch / parsePubmedXml      *)
(*   CitationsService.rankCitations                                        *)
(*   CitationsService.fetchCitations   (the orchestrator)                  *)
(* Time is counted in milliseconds.  Text is a sequence of one-character   *)
(* strings wherever the code looks inside a string.                        *)
(***************************************************************************)
EXTENDS Integers, Sequences, FiniteSets, TLC

VARIABLES
  config,     \* CitationsService.config.pubmed and ncbiApiKey (read-only after construction)
  now,        \* the clock, ms
  fpc,        \* fetchWithRetry: "idle" | "try" | "inflight" | "backoff" | "delay" | "returned" | "threw"
  freq,       \* fetchWithRetry: the request of the running call (url, params, timeout)
  attempt,    \* fetchWithRetry: the loop counter
  signalAt,   \* fetchWithRetry: the instant at which requestOptions.signal aborts
  startedAt,  \* fetchWithRetry: the instant the in-flight fetch() was issued
  wakeAt,     \* fetchWithRetry: the instant the running setTimeout resolves
  fresult,    \* fetchWithRetry: the PubMedResponse returned, or the error thrown
  callNo,     \* number of fetchWithRetry calls made so far
  httpLog,    \* history: one record per fetch() attempt
  sleeps,     \* history: one record per backoff sleep
  pc,         \* fetchCitations: the point the call has reached
  call,       \* fetchCitations: its arguments and the constants it computes from them
  pmids,      \* jsonFallbackSearch / xmlSearch: the identifiers of the search response
  citations,  \* fetchCitations: let citations: Citation[]
  unranked,   \* history: the list as it was handed to rankCitations
  jsonReturned, \* history: what jsonFallbackSearch returned
  xmlReturned,  \* history: what xmlSearch returned
  parsed,     \* history: the last detail body parsed, and what the parser gave
  result,     \* the CitationQueryResult returned
  qText,      \* extractEntitiesUsingRegex / generateRuleBasedQuery: the text given
  qEntities,  \* generateRuleBasedQuery: the ExtractedEntities given
  qParts,     \* generateRuleBasedQuery: const queryParts: string[]
  qBuilt,     \* generateRuleBasedQuery: the string returned
  qOptions,   \* fetchCitations: the prioritizeReviews and maxAgeYears of its options
  qFinal,     \* fetchCitations: let finalQuery: string
  calls,      \* concurrent fetchCitations calls: the local variables of each
  lastIndex,  \* the lastIndex of the four patterns of citation-constants.ts
  sPc,        \* generateResponseStream, start(controller): the point it has reached
  sModel,     \* generateResponseStream: const model
  sQueue,     \* the ReadableStream: the chunks enqueued so far
  sState,     \* the ReadableStream: "readable" | "closed" | "errored"
  sCloses,    \* history: the calls of controller.close()
  sErrors,    \* history: the calls of controller.error()
  sFetch      \* history: the fetchCitations call of the stream and how it ended

fetchVars == <<now, fpc, freq, attempt, signalAt, startedAt, wakeAt, fresult, callNo, httpLog, sleeps>>
pipeVars == <<pc, call, pmids, citations, unranked, jsonReturned, xmlReturned, parsed, result>>
queryVars == <<qText, qEntities, qParts, qBuilt, qOptions, qFinal>>
sharedVars == <<calls, lastIndex>>
streamVars == <<sPc, sModel, sQueue, sState, sCloses, sErrors, sFetch>>
vars == <<config, fetchVars, pipeVars, queryVars, sharedVars, streamVars>>

\* undefined, for a field that holds an atom and for one that holds text
None == "undefined"
Undef == <<"undefined">>

(***************************************************************************)
(* Bounds of the model                                                     *)
(***************************************************************************)
MaxRetriesBound == 3
MaxYearsOld == 2
MaxRankLen == 3
MaxIds == 2
MaxWords == 2

(***************************************************************************)
(* Program constants                                                       *)
(***************************************************************************)
DefaultMaxRetries == 3
DefaultMaxCitations == 5
DefaultMaxAgeYears == 5
ReviewBonus == 10
RecencyWeight == 5
DecayNum == 17
DecayDen == 20
CurrentYear == 2026
DefaultTimeoutShort == 10000
DefaultTimeoutLong == 15000
DelayWithKey == 110
DelayWithoutKey == 350
RateLimitFloorMs == 5000
JitterRange == 1000

Max(a, b) == IF a >= b THEN a ELSE b
Min(a, b) == IF a <= b THEN a ELSE b

RECURSIVE Pow(_, _)
Pow(b, n) == IF n = 0 THEN 1 ELSE b * Pow(b, n - 1)
Pow2(n) == Pow(2, n)

(***************************************************************************)
(* The configuration the constructor loads: PUBMED_MAX_RETRIES || 3 is any *)
(* positive count, the timeouts are the defaults, and the NCBI key is      *)
(* present or not.                                                         *)
(***************************************************************************)
Configs ==
  [ maxRetries        : 1..MaxRetriesBound,
    timeoutShort      : {DefaultTimeoutShort},
    timeoutLong       : {DefaultTimeoutLong},
    maxCitations      : {DefaultMaxCitations},
    prioritizeReviews : {TRUE},
    maxAgeYears       : {DefaultMaxAgeYears},
    hasApiKey         : BOOLEAN,
    hasOpenai         : BOOLEAN,
    useLlmExtraction  : BOOLEAN,
    useLlmQueryGeneration : BOOLEAN ]

\* the configurations fetchWithRetry is run under: it reads maxRetries and
\* the NCBI key
FetchConfigs ==
  {c \in Configs : ~c.hasOpenai /\ c.useLlmExtraction /\ c.useLlmQueryGeneration}

\* the configurations fetchCitations is run under
PipeConfigs ==
  {c \in Configs : c.maxRetries = 2 /\ ~c.hasApiKey
                     /\ c.useLlmExtraction /\ c.useLlmQueryGeneration}

\* the configurations fetchCitations is run under with an NCBI key
KeyConfigs ==
  {c \in Configs : c.maxRetries = 2 /\ c.hasApiKey /\ ~c.hasOpenai
                     /\ c.useLlmExtraction /\ c.useLlmQueryGeneration}

(***************************************************************************)
(* JavaScript values the code computes with                                *)
(***************************************************************************)

\* A number is NaN or a value; scores are kept as integers scaled by Scale,
\* which makes 5 * 0.85^k exact for every k up to MaxYearsOld.
NaN == [t |-> "nan", v |-> 0]
Undefined == [t |-> "undefined", v |-> 0]
Num(n) == [t |-> "num", v |-> n]
Scale == Pow(DecayDen, MaxYearsOld)

Digits == <<"0", "1", "2", "3", "4", "5", "6", "7", "8", "9">>
DigitSet == {Digits[i] : i \in DOMAIN Digits}
IsDigit(c) == c \in DigitSet
DigitVal(c) == (CHOOSE i \in DOMAIN Digits : Digits[i] = c) - 1
IsSpace(c) == c \in {" ", "\t", "\n"}

RECURSIVE SkipSpace(_)
SkipSpace(s) == IF s # <<>> /\ IsSpace(Head(s)) THEN SkipSpace(Tail(s)) ELSE s

RECURSIVE DigitPrefix(_, _)
DigitPrefix(s, acc) ==
  IF s # <<>> /\ IsDigit(Head(s))
    THEN DigitPrefix(Tail(s), 10 * acc + DigitVal(Head(s)))
    ELSE acc

\* parseInt(string): leading white space, an optional sign, then the longest
\* run of decimal digits; NaN when there is no digit.
ParseInt(s) ==
  LET t == SkipSpace(s)
      signed == t # <<>> /\ Head(t) \in {"+", "-"}
      u == IF signed THEN Tail(t) ELSE t
  IN  IF u = <<>> \/ ~IsDigit(Head(u)) THEN NaN
      ELSE IF signed /\ Head(t) = "-" THEN Num(0 - DigitPrefix(u, 0))
      ELSE Num(DigitPrefix(u, 0))

\* a string as a condition: undefined and '' are falsy
Truthy(s) == s # Undef /\ s # <<>>

\* the four decimal digits of a year
YearString(y) ==
  << Digits[((y \div 1000) % 10) + 1], Digits[((y \div 100) % 10) + 1],
     Digits[((y \div 10) % 10) + 1], Digits[(y % 10) + 1] >>

(***************************************************************************)
(* Citation (citations.dto.ts) and rankCitations                           *)
(***************************************************************************)
PubmedUrl(pmid) == <<"https://pubmed.ncbi.nlm.nih.gov/", pmid, "/">>

Citation(title, authors, journal, pmid, year, isReview) ==
  [ title |-> title, authors |-> authors, journal |-> journal, pmid |-> pmid,
    year |-> year, isReview |-> isReview,
    doi |-> None,
    url |-> IF pmid = None THEN Undef ELSE PubmedUrl(pmid),
    relevanceScore |-> Undefined ]

\* 5 * Math.pow(0.85, yearsOld), scaled
RecencyScore(yearsOld) ==
  (RecencyWeight * Scale * Pow(DecayNum, yearsOld)) \div Pow(DecayDen, yearsOld)

\* the body of the for loop of rankCitations: the score of one citation
RelevanceScore(c) ==
  LET base == IF c.isReview THEN ReviewBonus * Scale ELSE 0
  IN  IF Truthy(c.year)
        THEN LET year == ParseInt(c.year)
             IN  IF year.t = "nan"
                   THEN NaN    \* Math.max(0, NaN), Math.pow(0.85, NaN), score + NaN
                   ELSE Num(base + RecencyScore(Max(0, CurrentYear - year.v)))
        ELSE Num(base)

\* (x.relevanceScore || 0)
OrZero(x) == IF x.t = "num" THEN x.v ELSE 0

\* the comparator handed to sort
Compare(a, b) == OrZero(b.relevanceScore) - OrZero(a.relevanceScore)

\* Array.prototype.sort is stable: an element goes behind every element that
\* the comparator does not put after it.
RECURSIVE InsertSorted(_, _)
InsertSorted(sorted, x) ==
  IF sorted = <<>> THEN <<x>>
  ELSE IF Compare(Head(sorted), x) > 0 THEN <<x>> \o sorted
  ELSE <<Head(sorted)>> \o InsertSorted(Tail(sorted), x)

RECURSIVE SortCitations(_)
SortCitations(cs) ==
  IF cs = <<>> THEN <<>>
  ELSE InsertSorted(SortCitations(SubSeq(cs, 1, Len(cs) - 1)), cs[Len(cs)])

RankCitations(cs) ==
  SortCitations([i \in DOMAIN cs |-> [cs[i] EXCEPT !.relevanceScore = RelevanceScore(cs[i])]])

PmidNames == <<"101", "102", "103", "104", "105", "106">>
NotAYear == <<"n", ".", "d", ".">>

(***************************************************************************)
(* Text                                                                    *)
(***************************************************************************)
IsPrefix(p, s) == Len(p) <= Len(s) /\ SubSeq(s, 1, Len(p)) = p
Drop(s, n) == SubSeq(s, n + 1, Len(s))

\* pat occurs in s at position i
OccursAt(pat, s, i) ==
  i + Len(pat) - 1 <= Len(s) /\ \A k \in DOMAIN pat : s[i + k - 1] = pat[k]

\* String.prototype.replace(/pat/g, rep) for a literal pattern
RECURSIVE ReplaceAllFrom(_, _, _, _)
ReplaceAllFrom(s, i, pat, rep) ==
  IF i > Len(s) THEN <<>>
  ELSE IF OccursAt(pat, s, i) THEN rep \o ReplaceAllFrom(s, i + Len(pat), pat, rep)
  ELSE <<s[i]>> \o ReplaceAllFrom(s, i + 1, pat, rep)
ReplaceAll(s, pat, rep) == ReplaceAllFrom(s, 1, pat, rep)

\* .replace(/\s+/g, ' ')
RECURSIVE CollapseSpaceFrom(_, _)
CollapseSpaceFrom(s, i) ==
  IF i > Len(s) THEN <<>>
  ELSE IF IsSpace(s[i])
    THEN IF i > 1 /\ IsSpace(s[i - 1]) THEN CollapseSpaceFrom(s, i + 1)
         ELSE <<" ">> \o CollapseSpaceFrom(s, i + 1)
  ELSE <<s[i]>> \o CollapseSpaceFrom(s, i + 1)
CollapseSpace(s) == CollapseSpaceFrom(s, 1)

\* .trim()
Trim(s) ==
  LET kept == {i \in DOMAIN s : ~IsSpace(s[i])}
      first == CHOOSE i \in kept : \A j \in kept : i <= j
      last == CHOOSE i \in kept : \A j \in kept : j <= i
  IN  IF kept = {} THEN <<>> ELSE SubSeq(s, first, last)

\* .substring(0, n)
Substring0(s, n) == SubSeq(s, 1, Min(n, Len(s)))

\* Array.prototype.join(sep) over strings kept whole
RECURSIVE Join(_, _)
Join(parts, sep) ==
  IF parts = <<>> THEN <<>>
  ELSE IF Len(parts) = 1 THEN <<parts[1]>>
  ELSE <<parts[1], sep>> \o Join(Tail(parts), sep)

\* Number.prototype.toString() of an integer
RECURSIVE NatToString(_)
NatToString(n) ==
  IF n < 10 THEN <<Digits[n + 1]>>
  ELSE NatToString(n \div 10) \o <<Digits[(n % 10) + 1]>>
NumberToString(n) == IF n < 0 THEN <<"-">> \o NatToString(0 - n) ELSE NatToString(n)

\* Array.prototype.slice(0, end)
Slice0(a, end) ==
  LET e == IF end < 0 THEN Max(Len(a) + end, 0) ELSE Min(end, Len(a))
  IN  SubSeq(a, 1, e)

\* cleanXmlText: the five entities in the order of the code, then white space
CleanXmlText(text) ==
  LET lt == ReplaceAll(text, <<"&", "l", "t", ";">>, <<"<">>)
      gt == ReplaceAll(lt, <<"&", "g", "t", ";">>, <<">">>)
      amp == ReplaceAll(gt, <<"&", "a", "m", "p", ";">>, <<"&">>)
      quot == ReplaceAll(amp, <<"&", "q", "u", "o", "t", ";">>, <<"\"">>)
      apos == ReplaceAll(quot, <<"&", "a", "p", "o", "s", ";">>, <<"'">>)
  IN  Trim(CollapseSpace(apos))

(***************************************************************************)
(* The requests of the two paths                                           *)
(***************************************************************************)
SearchRequest(retmode, term, maxResults, timeout) ==
  [ url |-> "esearch.fcgi", db |-> "pubmed", term |-> term,
    retmax |-> NumberToString(maxResults), retmode |-> retmode,
    sort |-> "relevance", timeout |-> timeout ]

\* a summary request that carries the first identifier only
SummaryRequestFirstId(ids, timeout) ==
  [ url |-> "esummary.fcgi", db |-> "pubmed", id |-> Join(SubSeq(ids, 1, 1), ","),
    retmode |-> "json", timeout |-> timeout ]

SummaryRequest(ids, timeout) ==
  [ url |-> "esummary.fcgi", db |-> "pubmed", id |-> Join(ids, ","),
    retmode |-> "json", timeout |-> timeout ]

EfetchRequest(ids, timeout) ==
  [ url |-> "efetch.fcgi", db |-> "pubmed", id |-> Join(ids, ","),
    retmode |-> "xml", rettype |-> "abstract", timeout |-> timeout ]

(***************************************************************************)
(* What the service may answer.  An esearch answer lists up to MaxIds      *)
(* identifiers, whatever retmax was; a detail answer holds, for each       *)
(* identifier asked for, one record of a few kinds, or none.  At most one  *)
(* record of an answer is missing or differs from the well-formed kind.    *)
(***************************************************************************)
ServiceIds == <<"102", "101", "103", "104", "105">>
IdLists == { SubSeq(ServiceIds, 1, n) : n \in 0..MaxIds }

\* the body of esearch, retmode=json: JSON that parses or text that does not
SearchJsonBodies ==
  { [json |-> TRUE, idlist |-> l, idPairs |-> <<>>] : l \in IdLists }
    \cup { [json |-> FALSE, idlist |-> <<>>, idPairs |-> l] : l \in {<<>>, <<ServiceIds[1]>>} }

\* the body of esearch, retmode=xml: its <Id> elements
SearchXmlBodies == { [ids |-> l] : l \in IdLists }

T_Brca == <<"B", "R", "C", "A", "1", " ", "l", "o", "s", "s">>
T_Raw == <<" ", "p", "5", "3", " ", "&", "a", "m", "p", ";", " ", " ", "R", "B", "1">>
T_Blank == <<" ">>
PubdateJan == YearString(CurrentYear - 1) \o <<" ", "J", "a", "n">>
PubdateWinter == <<"W", "i", "n", "t", "e", "r", " ">> \o YearString(CurrentYear)

\* the well-formed entry of result{} in an esummary body
GoodEntry ==
  [ title |-> T_Brca, authors |-> [shape |-> "array", names |-> <<"Smith J", None>>],
    fulljournalname |-> <<"Nature">>, source |-> <<"Nat">>,
    pubdate |-> PubdateJan, pubtype |-> <<"Journal Article", "Review">> ]

\* the other entries: one with no title, authors, journal name or type, and
\* one whose authors are no array
SummaryEntries ==
  { GoodEntry,
    [ title |-> Undef, authors |-> [shape |-> "absent", names |-> <<>>],
      fulljournalname |-> Undef, source |-> <<"Cell">>,
      pubdate |-> PubdateWinter, pubtype |-> Undef ],
    [ title |-> T_Brca, authors |-> [shape |-> "other", names |-> <<>>],
      fulljournalname |-> <<"Nature">>, source |-> Undef,
      pubdate |-> PubdateJan, pubtype |-> <<"Review">> ] }

\* the identifiers of a detail request, as the service reads them
IdsOf(req) == SelectSeq(req.id, LAMBDA t : t # ",")
Range(f) == {f[i] : i \in DOMAIN f}

SummaryBodies(req) ==
  LET ids == Range(IdsOf(req))
      good == [p \in ids |-> GoodEntry]
      oneOdd == { [good EXCEPT ![p] = e] : p \in ids, e \in SummaryEntries }
      oneMissing == { [q \in ids \ {p} |-> GoodEntry] : p \in ids }
  IN  { [json |-> TRUE, result |-> r] : r \in {good, <<>>} \cup oneOdd \cup oneMissing }
        \cup { [json |-> FALSE, result |-> <<>>] }

\* the well-formed <PubmedArticle> unit of an efetch body; closed is whether
\* its end tag is there
GoodUnit(pmid) ==
  [ closed |-> TRUE, pmid |-> pmid, title |-> T_Raw, journal |-> <<"N", " ", " ", "M">>,
    year |-> YearString(CurrentYear - 1), isReview |-> TRUE,
    authors |-> <<[last |-> "Smith", initials |-> "J"], [last |-> "Doe", initials |-> None]>>,
    doi |-> "10.1/a" ]

\* the other units: one without a title, one with a blank title and no
\* identifier, one whose end tag is missing
XmlUnits(pmid) ==
  { GoodUnit(pmid),
    [ closed |-> TRUE, pmid |-> pmid, title |-> Undef, journal |-> Undef,
      year |-> NotAYear, isReview |-> FALSE, authors |-> <<>>, doi |-> None ],
    [ closed |-> TRUE, pmid |-> None, title |-> T_Blank, journal |-> Undef,
      year |-> Undef, isReview |-> FALSE, authors |-> <<>>, doi |-> None ],
    [ closed |-> FALSE, pmid |-> pmid, title |-> T_Brca, journal |-> Undef,
      year |-> YearString(CurrentYear), isReview |-> FALSE, authors |-> <<>>, doi |-> None ] }

EfetchBodies(req) ==
  LET ids == IdsOf(req)
      good == [i \in DOMAIN ids |-> GoodUnit(ids[i])]
  IN  {good} \cup UNION { { [good EXCEPT ![i] = u] : u \in XmlUnits(ids[i]) } :
                             i \in DOMAIN ids }

ResponseBodies(req) ==
  CASE req.url = "esearch.fcgi" /\ req.retmode = "json" -> SearchJsonBodies
    [] req.url = "esearch.fcgi" /\ req.retmode = "xml" -> SearchXmlBodies
    [] req.url = "esummary.fcgi" -> SummaryBodies(req)
    [] req.url = "efetch.fcgi" -> EfetchBodies(req)

(***************************************************************************)
(* The two parsers                                                         *)
(***************************************************************************)

\* jsonFallbackSearch, the identifiers of the search response: idlist when
\* the body parses, the "id": "..." pairs found by the regex when it does not
ParseSearchJson(body) == IF body.json THEN body.idlist ELSE body.idPairs

\* xmlSearch, the identifiers of the search response
ParseSearchXml(body) == body.ids

\* whether building the citation of one summary entry throws a TypeError:
\* .map on an authors value that is no array
EntryThrows(article) == article.authors.shape = "other"

OrElse(a, b) == IF Truthy(a) THEN a ELSE b

\* the body of the for loop of jsonFallbackSearch for an entry that exists
SummaryCitation(pmid, article) ==
  LET names == [i \in DOMAIN article.authors.names |->
                  IF article.authors.names[i] = None THEN "Unknown Author"
                  ELSE article.authors.names[i]]
  IN  Citation(
        OrElse(article.title, <<"U", "n", "t", "i", "t", "l", "e", "d">>),
        OrElse(Join(names, ", "), <<"Unknown">>),
        OrElse(article.fulljournalname, OrElse(article.source, <<"Unknown Journal">>)),
        pmid,
        IF Truthy(article.pubdate) THEN Substring0(article.pubdate, 4) ELSE Undef,
        article.pubtype # Undef /\ \E i \in DOMAIN article.pubtype : article.pubtype[i] = "Review")

RECURSIVE SummaryCitations(_, _)
SummaryCitations(entries, ids) ==
  IF ids = <<>> THEN <<>>
  ELSE IF Head(ids) \in DOMAIN entries
    THEN <<SummaryCitation(Head(ids), entries[Head(ids)])>> \o SummaryCitations(entries, Tail(ids))
  ELSE SummaryCitations(entries, Tail(ids))

\* jsonFallbackSearch, lines 891-922: one try around the whole loop
ParseSummary(body, ids) ==
  IF ~body.json THEN <<>>
  ELSE IF \E i \in DOMAIN ids :
            ids[i] \in DOMAIN body.result /\ EntryThrows(body.result[ids[i]])
    THEN <<>>
  ELSE SummaryCitations(body.result, ids)

\* xmlText.match(/<PubmedArticle>[\s\S]*?<\/PubmedArticle>/g): a block runs
\* from a start tag to the first end tag after it
RECURSIVE ArticleBlocks(_)
ArticleBlocks(units) ==
  IF \A i \in DOMAIN units : ~units[i].closed THEN <<>>
  ELSE LET j == CHOOSE k \in DOMAIN units :
                  units[k].closed /\ \A m \in 1..(k - 1) : ~units[m].closed
       IN  <<SubSeq(units, 1, j)>> \o ArticleBlocks(Drop(units, j))

\* the first match of a sub-pattern in a block
FirstText(block, field) ==
  IF \A i \in DOMAIN block : block[i][field] = Undef THEN Undef
  ELSE block[CHOOSE k \in DOMAIN block :
               block[k][field] # Undef /\ \A m \in 1..(k - 1) : block[m][field] = Undef][field]
FirstAtom(block, field) ==
  IF \A i \in DOMAIN block : block[i][field] = None THEN None
  ELSE block[CHOOSE k \in DOMAIN block :
               block[k][field] # None /\ \A m \in 1..(k - 1) : block[m][field] = None][field]

RECURSIVE BlockAuthors(_)
BlockAuthors(block) ==
  IF block = <<>> THEN <<>>
  ELSE [i \in DOMAIN Head(block).authors |->
          IF Head(block).authors[i].initials # None
            THEN Head(block).authors[i].last \o " " \o Head(block).authors[i].initials
            ELSE Head(block).authors[i].last]
       \o BlockAuthors(Tail(block))

\* whether the block gives a citation: if (titleMatch)
BlockHasTitle(block) == FirstText(block, "title") # Undef

BlockCitation(block) ==
  LET journal == FirstText(block, "journal")
      names == BlockAuthors(block)
  IN  [ Citation(
          CleanXmlText(FirstText(block, "title")),
          IF Len(names) > 0 THEN Join(names, ", ") ELSE <<"Unknown">>,
          IF journal # Undef THEN CleanXmlText(journal) ELSE <<"Unknown Journal">>,
          FirstAtom(block, "pmid"),
          FirstText(block, "year"),
          \E i \in DOMAIN block : block[i].isReview)
        EXCEPT !.doi = FirstAtom(block, "doi") ]

RECURSIVE BlockCitations(_)
BlockCitations(blocks) ==
  IF blocks = <<>> THEN <<>>
  ELSE IF BlockHasTitle(Head(blocks))
    THEN <<BlockCitation(Head(blocks))>> \o BlockCitations(Tail(blocks))
  ELSE BlockCitations(Tail(blocks))

ParsePubmedXml(units) == BlockCitations(ArticleBlocks(units))

(***************************************************************************)
(* fetchWithRetry                                                          *)
(***************************************************************************)

\* What the remote end does with one attempt: answers after lat ms with a
\* status, fails at the transport level after lat ms, or never answers.
Outcomes(statuses, lats) ==
  [kind : {"http"}, status : statuses, lat : lats]
    \cup [kind : {"network"}, status : {0}, lat : lats]
    \cup [kind : {"hang"}, status : {0}, lat : {0}]

\* fetch(fullUrl, requestOptions) as it settles: the shared signal aborts the
\* attempt at signalAt, at once when signalAt has passed already.
Settle(o, start, sig) ==
  IF start >= sig
    THEN [kind |-> "timeout", status |-> 0, endedAt |-> start]
  ELSE IF o.kind = "hang" \/ start + o.lat >= sig
    THEN [kind |-> "timeout", status |-> 0, endedAt |-> sig]
  ELSE [kind |-> o.kind, status |-> o.status, endedAt |-> start + o.lat]

\* response.ok
ResponseOk(s) == s.kind = "http" /\ s.status >= 200 /\ s.status <= 299

\* error.message.includes('429') on 'HTTP error ${status}: ...'
RateLimited(s) == s.kind = "http" /\ s.status = 429

\* attempt < this.config.pubmed.maxRetries - 1
AttemptsRemainShort(k, maxRetries) == k < maxRetries - 2
AttemptsRemain(k, maxRetries) == k < maxRetries - 1

\* Math.pow(2, attempt) * 1000 + Math.random() * 1000
BackoffMs(k, jitter) == Pow2(k) * 1000 + jitter

\* the catch block without its branch for rate limits
SleepMsNoFloor(k, jitter, rateLimited) == BackoffMs(k, jitter)

\* the argument of setTimeout in the catch block
SleepMs(k, jitter, rateLimited) ==
  IF rateLimited THEN Max(BackoffMs(k, jitter), RateLimitFloorMs)
                 ELSE BackoffMs(k, jitter)

\* the delay of line 655 without its test of the key
PostRequestDelayShort(hasKey) == DelayWithKey

\* this.ncbiApiKey ? 110 : 350
PostRequestDelay(hasKey) == IF hasKey THEN DelayWithKey ELSE DelayWithoutKey

\* Entry of fetchWithRetry up to the loop: the parameters, and the one
\* AbortSignal.timeout(timeout) made before the loop.
FetchCall(req) ==
  /\ fpc' = "try"
  /\ freq' = req
  /\ attempt' = 0
  /\ signalAt' = now + req.timeout
  /\ callNo' = callNo + 1
  /\ fresult' = None
  /\ UNCHANGED <<now, startedAt, wakeAt, httpLog, sleeps>>

\* The loop head and fetch(fullUrl, requestOptions) being issued.
AttemptStart ==
  /\ fpc = "try"
  /\ attempt < config.maxRetries
  /\ fpc' = "inflight"
  /\ startedAt' = now
  /\ UNCHANGED <<now, freq, attempt, signalAt, wakeAt, fresult, callNo, httpLog, sleeps>>

\* what the log keeps of a request: everything but the search term
Logged(req) == [f \in DOMAIN req \ {"term"} |-> req[f]]

LogEntry(s) ==
  [ call |-> callNo, attempt |-> attempt, startedAt |-> startedAt,
    endedAt |-> s.endedAt, kind |-> s.kind, status |-> s.status,
    timeout |-> freq.timeout, req |-> Logged(freq) ]

\* The attempt succeeds: the body is read and the post-request delay starts.
AttemptSucceeds(outcomes) ==
  /\ fpc = "inflight"
  /\ \E o \in outcomes, body \in ResponseBodies(freq) :
       LET s == Settle(o, startedAt, signalAt) IN
       /\ ResponseOk(s)
       /\ now' = s.endedAt
       /\ httpLog' = Append(httpLog, LogEntry(s))
       /\ fresult' = [status |-> s.status, data |-> body]
       /\ wakeAt' = s.endedAt + PostRequestDelay(config.hasApiKey)
  /\ fpc' = "delay"
  /\ UNCHANGED <<freq, attempt, signalAt, startedAt, callNo, sleeps>>

\* The post-request delay is over: return the response.
DelayDone ==
  /\ fpc = "delay"
  /\ now' = wakeAt
  /\ fpc' = "returned"
  /\ UNCHANGED <<freq, attempt, signalAt, startedAt, wakeAt, fresult, callNo, httpLog, sleeps>>

\* The attempt fails with attempts remaining: the backoff sleep starts.
AttemptFailsRetry(outcomes, jitters) ==
  /\ fpc = "inflight"
  /\ AttemptsRemain(attempt, config.maxRetries)
  /\ \E o \in outcomes, j \in jitters :
       LET s == Settle(o, startedAt, signalAt) IN
       /\ ~ResponseOk(s)
       /\ now' = s.endedAt
       /\ httpLog' = Append(httpLog, LogEntry(s))
       /\ wakeAt' = s.endedAt + SleepMs(attempt, j, RateLimited(s))
       /\ sleeps' = Append(sleeps,
            [ call |-> callNo, attempt |-> attempt, jitter |-> j,
              rateLimited |-> RateLimited(s),
              ms |-> SleepMs(attempt, j, RateLimited(s)) ])
  /\ fpc' = "backoff"
  /\ UNCHANGED <<freq, attempt, signalAt, startedAt, fresult, callNo>>

\* The backoff sleep is over: the next iteration of the loop.
BackoffDone ==
  /\ fpc = "backoff"
  /\ now' = wakeAt
  /\ attempt' = attempt + 1
  /\ fpc' = "try"
  /\ UNCHANGED <<freq, signalAt, startedAt, wakeAt, fresult, callNo, httpLog, sleeps>>

\* The attempt fails with no attempt remaining: the error is rethrown.
AttemptFailsFinal(outcomes) ==
  /\ fpc = "inflight"
  /\ ~AttemptsRemain(attempt, config.maxRetries)
  /\ \E o \in outcomes :
       LET s == Settle(o, startedAt, signalAt) IN
       /\ ~ResponseOk(s)
       /\ now' = s.endedAt
       /\ httpLog' = Append(httpLog, LogEntry(s))
       /\ fresult' = [error |-> s.kind, status |-> s.status]
  /\ fpc' = "threw"
  /\ UNCHANGED <<freq, attempt, signalAt, startedAt, wakeAt, callNo, sleeps>>

(***************************************************************************)
(* Strings the code looks inside are sequences of one-character strings.   *)
(***************************************************************************)
UpperChars == <<"A", "B", "C", "D", "E", "F", "G", "H", "I", "J", "K", "L", "M", "N", "O",
      "P", "Q", "R", "S", "T", "U", "V", "W", "X", "Y", "Z">>
LowerChars == <<"a", "b", "c", "d", "e", "f", "g", "h", "i", "j", "k", "l", "m", "n", "o",
      "p", "q", "r", "s", "t", "u", "v", "w", "x", "y", "z">>
UpperSet == {UpperChars[i] : i \in DOMAIN UpperChars}
LowerSet == {LowerChars[i] : i \in DOMAIN LowerChars}
WordSet == UpperSet \cup LowerSet \cup DigitSet \cup {"_"}
IsUpper(c) == c \in UpperSet
IsLower(c) == c \in LowerSet
IsWordChar(c) == c \in WordSet

ToLowerChar(c) ==
  IF IsUpper(c) THEN LowerChars[CHOOSE i \in DOMAIN UpperChars : UpperChars[i] = c] ELSE c
ToUpperChar(c) ==
  IF IsLower(c) THEN UpperChars[CHOOSE i \in DOMAIN LowerChars : LowerChars[i] = c] ELSE c
ToLowerCase(s) == [i \in 1..Len(s) |-> ToLowerChar(s[i])]
ToUpperCase(s) == [i \in 1..Len(s) |-> ToUpperChar(s[i])]

Includes(s, sub) == \E i \in 0..(Len(s) - Len(sub)) : SubSeq(s, i + 1, i + Len(sub)) = sub
StartsWith(s, p) == IsPrefix(p, s)
EndsWith(s, p) == Len(p) <= Len(s) /\ SubSeq(s, Len(s) - Len(p) + 1, Len(s)) = p

\* Array.prototype.join(sep) over strings the code looks inside
RECURSIVE JoinText(_, _)
JoinText(parts, sep) ==
  IF parts = <<>> THEN <<>>
  ELSE IF Len(parts) = 1 THEN parts[1]
  ELSE parts[1] \o sep \o JoinText(Tail(parts), sep)

\* Array.from(new Set(list)): the first occurrence of each element, in order
RECURSIVE Unique(_)
Unique(list) ==
  IF list = <<>> THEN <<>>
  ELSE LET init == Unique(SubSeq(list, 1, Len(list) - 1))
           last == list[Len(list)]
       IN  IF \E i \in DOMAIN init : init[i] = last THEN init ELSE Append(init, last)

(***************************************************************************)
(* Regular expressions, matched as a backtracking engine matches them: the *)
(* ends of the matches of a pattern at a position, in the order the engine *)
(* tries them (a greedy repetition tries one more iteration first).        *)
(***************************************************************************)
Unbounded == 0 - 1
Class(name) == [k |-> "class", name |-> name]
Lit(s) == [k |-> "lit", s |-> s]
WordBoundary == [k |-> "b"]
Cat(parts) == [k |-> "cat", parts |-> parts]
Alt(parts) == [k |-> "alt", parts |-> parts]
Rep(of, min, max) == [k |-> "rep", of |-> of, min |-> min, max |-> max]

InClass(name, c) ==
  CASE name = "A-Z" -> IsUpper(c)
    [] name = "a-z" -> IsLower(c)
    [] name = "A-Z0-9" -> IsUpper(c) \/ IsDigit(c)
    [] name = "\\d" -> IsDigit(c)
    [] name = "\\s" -> IsSpace(c)

\* \b at position i: exactly one of the characters before and at i is a word
\* character
AtWordBoundary(s, i) ==
  LET before == i > 1 /\ IsWordChar(s[i - 1])
      after == i <= Len(s) /\ IsWordChar(s[i])
  IN  before # after

RECURSIVE Ends(_, _, _), EndsFromAll(_, _, _), EndsCat(_, _, _), EndsAlt(_, _, _)
RECURSIVE EndsRep(_, _, _, _)
Ends(re, s, i) ==
  CASE re.k = "class" -> IF i <= Len(s) /\ InClass(re.name, s[i]) THEN <<i + 1>> ELSE <<>>
    [] re.k = "lit" -> IF OccursAt(re.s, s, i) THEN <<i + Len(re.s)>> ELSE <<>>
    [] re.k = "b" -> IF AtWordBoundary(s, i) THEN <<i>> ELSE <<>>
    [] re.k = "cat" -> EndsCat(re.parts, s, <<i>>)
    [] re.k = "alt" -> EndsAlt(re.parts, s, i)
    [] re.k = "rep" -> EndsRep(re, 0, s, i)

\* the ends of re from each of the starts, in order
EndsFromAll(re, s, starts) ==
  IF starts = <<>> THEN <<>>
  ELSE Ends(re, s, Head(starts)) \o EndsFromAll(re, s, Tail(starts))

EndsCat(parts, s, starts) ==
  IF parts = <<>> THEN starts
  ELSE EndsCat(Tail(parts), s, EndsFromAll(Head(parts), s, starts))

EndsAlt(parts, s, i) ==
  IF parts = <<>> THEN <<>>
  ELSE Ends(Head(parts), s, i) \o EndsAlt(Tail(parts), s, i)

EndsRep(re, count, s, i) ==
  LET again == IF re.max = Unbounded \/ count < re.max
                 THEN SelectSeq(Ends(re.of, s, i), LAMBDA e : e > i)
                 ELSE <<>>
      RECURSIVE More(_)
      More(starts) ==
        IF starts = <<>> THEN <<>>
        ELSE EndsRep(re, count + 1, s, Head(starts)) \o More(Tail(starts))
  IN  More(again) \o (IF count >= re.min THEN <<i>> ELSE <<>>)

\* Array.from(text.matchAll(re)).map(match => match[0]) for a /g pattern
RECURSIVE MatchAllFrom(_, _, _)
MatchAllFrom(re, s, i) ==
  IF i > Len(s) THEN <<>>
  ELSE LET ends == Ends(re, s, i)
       IN  IF ends = <<>> THEN MatchAllFrom(re, s, i + 1)
           ELSE <<SubSeq(s, i, ends[1] - 1)>>
                  \o MatchAllFrom(re, s, IF ends[1] > i THEN ends[1] ELSE i + 1)
MatchAll(re, s) == MatchAllFrom(re, s, 1)

(***************************************************************************)
(* citation-constants.ts                                                   *)
(***************************************************************************)
Word == Cat(<<Class("A-Z"), Rep(Class("a-z"), 1, Unbounded)>>)
Spaces == Rep(Class("\\s"), 1, Unbounded)

\* /\b[A-Z][A-Z0-9]{1,}(?:-\d+)?\b/g
GENE_PATTERN ==
  Cat(<< WordBoundary, Class("A-Z"), Rep(Class("A-Z0-9"), 1, Unbounded),
         Rep(Cat(<<Lit(<<"-">>), Rep(Class("\\d"), 1, Unbounded)>>), 0, 1),
         WordBoundary >>)

\* /\b[A-Z][a-z]*(?:-[A-Z][a-z]+)*(?:\s+[A-Z][a-z]+){0,3}\s+(?:protein|receptor|
\*   kinase|phosphatase|enzyme|transporter|channel|factor)\b/g
PROTEIN_PATTERN ==
  Cat(<< WordBoundary, Class("A-Z"), Rep(Class("a-z"), 0, Unbounded),
         Rep(Cat(<<Lit(<<"-">>), Word>>), 0, Unbounded),
         Rep(Cat(<<Spaces, Word>>), 0, 3),
         Spaces,
         Alt(<< Lit(<<"p", "r", "o", "t", "e", "i", "n">>), Lit(<<"r", "e", "c", "e", "p",
               "t", "o", "r">>), Lit(<<"k", "i", "n", "a", "s", "e">>), Lit(<<"p", "h", "o",
                     "s", "p", "h", "a", "t", "a", "s", "e">>),
                Lit(<<"e", "n", "z", "y", "m", "e">>), Lit(<<"t", "r", "a", "n", "s", "p",
                      "o", "r", "t", "e", "r">>), Lit(<<"c", "h", "a", "n", "n", "e", "l">>),
                            Lit(<<"f", "a", "c", "t", "o", "r">>) >>),
         WordBoundary >>)

\* /\b(?:[A-Z][a-z]+\s+){1,4}(?:disease|disorder|syndrome|deficiency|cancer|
\*   tumor|carcinoma|leukemia|lymphoma)\b/g
DISEASE_PATTERN ==
  Cat(<< WordBoundary, Rep(Cat(<<Word, Spaces>>), 1, 4),
         Alt(<< Lit(<<"d", "i", "s", "e", "a", "s", "e">>), Lit(<<"d", "i", "s", "o", "r",
               "d", "e", "r">>), Lit(<<"s", "y", "n", "d", "r", "o", "m", "e">>), Lit(<<"d",
                     "e", "f", "i", "c", "i", "e", "n", "c", "y">>),
                Lit(<<"c", "a", "n", "c", "e", "r">>), Lit(<<"t", "u", "m", "o", "r">>),
                      Lit(<<"c", "a", "r", "c", "i", "n", "o", "m", "a">>), Lit(<<"l", "e",
                            "u", "k", "e", "m", "i", "a">>),
                Lit(<<"l", "y", "m", "p", "h", "o", "m", "a">>) >>),
         WordBoundary >>)

\* /\b(?:[A-Z][a-z]+\s+){0,3}(?:pathway|signaling|signalling|cascade|axis)\b/g
PATHWAY_PATTERN ==
  Cat(<< WordBoundary, Rep(Cat(<<Word, Spaces>>), 0, 3),
         Alt(<< Lit(<<"p", "a", "t", "h", "w", "a", "y">>), Lit(<<"s", "i", "g", "n", "a",
               "l", "i", "n", "g">>), Lit(<<"s", "i", "g", "n", "a", "l", "l", "i", "n",
                     "g">>), Lit(<<"c", "a", "s", "c", "a", "d", "e">>),
                Lit(<<"a", "x", "i", "s">>) >>),
         WordBoundary >>)

COMMON_NON_GENES ==
  { <<"D", "N", "A">>, <<"R", "N", "A">>, <<"P", "C", "R">>, <<"T", "H", "E">>, <<"A", "N",
        "D">>, <<"N", "O", "T">>, <<"F", "O", "R">>, <<"T", "H", "I", "S">>, <<"W", "I", "T",
              "H">>, <<"F", "R", "O", "M">>,
    <<"T", "Y", "P", "E">>, <<"C", "E", "L", "L">>, <<"C", "E", "L", "L", "S">>, <<"F", "A",
          "C", "T", "O", "R">>, <<"S", "T", "U", "D", "Y">>, <<"R", "E", "V", "I", "E",
                "W">>, <<"H", "U", "M", "A", "N">>, <<"M", "O", "U", "S", "E">>,
    <<"R", "A", "T">>, <<"C", "A", "S", "E">>, <<"R", "E", "P", "O", "R", "T">>, <<"A", "N",
          "A", "L", "Y", "S", "I", "S">>, <<"E", "F", "F", "E", "C", "T">>, <<"E", "F", "F",
                "E", "C", "T", "S">>, <<"R", "O", "L", "E">>,
    <<"A", "S", "S", "O", "C", "I", "A", "T", "E", "D">>, <<"A", "S", "S", "O", "C", "I",
          "A", "T", "I", "O", "N">>, <<"I", "N", "V", "O", "L", "V", "E", "D">>, <<"P", "A",
                "T", "H", "W", "A", "Y">>, <<"R", "E", "C", "E", "P", "T", "O", "R">>, <<"P",
                      "R", "O", "T", "E", "I", "N">>,
    <<"E", "X", "P", "R", "E", "S", "S", "I", "O", "N">>, <<"L", "E", "V", "E", "L", "S">>,
          <<"A", "C", "T", "I", "V", "I", "T", "Y">>, <<"R", "E", "G", "U", "L", "A", "T",
                "I", "O", "N">>, <<"F", "U", "N", "C", "T", "I", "O", "N">>, <<"M", "U", "T",
                      "A", "T", "I", "O", "N">>,
    <<"M", "U", "T", "A", "T", "I", "O", "N", "S">>, <<"G", "E", "N", "E">>, <<"G", "E", "N",
          "E", "S">>, <<"S", "N", "P">>, <<"S", "N", "P", "S">>, <<"M", "I", "R", "N", "A">>,
                <<"N", "C", "R", "N", "A">>, <<"L", "N", "C", "R", "A">>,
    <<"C", "O", "V", "I", "D">>, <<"S", "A", "R", "S", "-", "C", "O", "V", "-", "2">>, <<"A",
          "I", "D", "S">>, <<"H", "I", "V">>, <<"U", "S", "A">>, <<"N", "I", "H">>, <<"F",
                "D", "A">> }

\* the entries of QUERY_TYPE_INDICATORS, in the order of the object literal
QUERY_TYPE_INDICATORS ==
  [ gene |-> << <<"g", "e", "n", "e">>, <<"g", "e", "n", "e", "s">>, <<"m", "u", "t", "a",
        "t", "i", "o", "n">>, <<"a", "l", "l", "e", "l", "e">>, <<"l", "o", "c", "u", "s">>,
              <<"p", "o", "l", "y", "m", "o", "r", "p", "h", "i", "s", "m">>,
                <<"v", "a", "r", "i", "a", "n", "t">> >>,
    protein |-> << <<"p", "r", "o", "t", "e", "i", "n">>, <<"r", "e", "c", "e", "p", "t",
          "o", "r">>, <<"e", "n", "z", "y", "m", "e">>, <<"a", "n", "t", "i", "b", "o", "d",
                "y">>, <<"k", "i", "n", "a", "s", "e">>,
                   <<"t", "r", "a", "n", "s", "p", "o", "r", "t", "e", "r">> >>,
    pathway |-> << <<"p", "a", "t", "h", "w", "a", "y">>, <<"s", "i", "g", "n", "a", "l",
          "i", "n", "g">>, <<"c", "a", "s", "c", "a", "d", "e">>, <<"m", "e", "t", "a", "b",
                "o", "l", "i", "c">>, <<"p", "r", "o", "c", "e", "s", "s">> >>,
    disease |-> << <<"d", "i", "s", "e", "a", "s", "e">>, <<"d", "i", "s", "o", "r", "d",
          "e", "r">>, <<"s", "y", "n", "d", "r", "o", "m", "e">>, <<"c", "o", "n", "d", "i",
                "t", "i", "o", "n">>, <<"p", "a", "t", "h", "o", "l", "o", "g", "y">>,
                   <<"c", "a", "n", "c", "e", "r">> >> ]
IndicatorTypes == <<"gene", "protein", "pathway", "disease">>

(***************************************************************************)
(* Entities and queries                                                    *)
(***************************************************************************)
EmptyEntities ==
  [genes |-> <<>>, proteins |-> <<>>, diseases |-> <<>>, pathways |-> <<>>, keywords |-> <<>>]

\* gene.length >= 3 && !COMMON_NON_GENES.has(gene.toUpperCase()) && !/^\d+$/.test(gene)
IsGeneSymbol(gene) ==
  /\ ToUpperCase(gene) \notin COMMON_NON_GENES
  /\ Len(gene) >= 3
  /\ ~(\A i \in DOMAIN gene : IsDigit(gene[i]))

\* indicators.some(indicator => textLower.includes(indicator))
SomeIndicator(type, textLower) ==
  \E i \in DOMAIN QUERY_TYPE_INDICATORS[type] :
    Includes(textLower, QUERY_TYPE_INDICATORS[type][i])

\* the keywords loop: every indicator of each type one of whose indicators
\* the text contains
RECURSIVE IndicatorKeywords(_, _)
IndicatorKeywords(types, textLower) ==
  IF types = <<>> THEN <<>>
  ELSE (IF SomeIndicator(Head(types), textLower)
          THEN QUERY_TYPE_INDICATORS[Head(types)] ELSE <<>>)
         \o IndicatorKeywords(Tail(types), textLower)

\* The four patterns are objects of the module, shared by every call, and
\* have the g flag: text.matchAll(re) matches with a copy of re that starts
\* at re.lastIndex, and leaves re itself alone.
ZeroLastIndex == [gene |-> 0, protein |-> 0, disease |-> 0, pathway |-> 0]
MatchAllAt(re, s, index) == MatchAllFrom(re, s, index + 1)

\* re.test(text) in place of matchAll: lastIndex is left at the end of the
\* first match
LastIndexAfterTest(li, text) ==
  LET starts == {i \in (li.gene + 1)..Len(text) : Ends(GENE_PATTERN, text, i) # <<>>}
      first == CHOOSE i \in starts : \A j \in starts : i <= j
  IN  [li EXCEPT !.gene = IF starts = {} THEN 0
                          ELSE Ends(GENE_PATTERN, text, first)[1] - 1]

\* the lastIndex of the patterns after extractEntitiesUsingRegex(text)
LastIndexAfterMatchAll(li, text) == li

\* extractEntitiesUsingRegex with the patterns as they stand
ExtractEntitiesAt(text, li) ==
  LET genes == Unique(SelectSeq(MatchAllAt(GENE_PATTERN, text, li.gene), IsGeneSymbol))
      proteins == Unique(MatchAllAt(PROTEIN_PATTERN, text, li.protein))
      diseases == Unique(MatchAllAt(DISEASE_PATTERN, text, li.disease))
      pathways == Unique(MatchAllAt(PATHWAY_PATTERN, text, li.pathway))
      scarce == genes = <<>> /\ diseases = <<>> /\ proteins = <<>> /\ pathways = <<>>
  IN  [ genes |-> genes, proteins |-> proteins, diseases |-> diseases,
        pathways |-> pathways,
        keywords |-> IF scarce
                       THEN Unique(IndicatorKeywords(IndicatorTypes, ToLowerCase(text)))
                       ELSE <<>> ]

\* extractEntitiesUsingRegex without the test of line 331
ExtractEntitiesKeywordsAlways(text) ==
  [ genes |-> Unique(SelectSeq(MatchAll(GENE_PATTERN, text), IsGeneSymbol)),
    proteins |-> Unique(MatchAll(PROTEIN_PATTERN, text)),
    diseases |-> Unique(MatchAll(DISEASE_PATTERN, text)),
    pathways |-> Unique(MatchAll(PATHWAY_PATTERN, text)),
    keywords |-> Unique(IndicatorKeywords(IndicatorTypes, ToLowerCase(text))) ]
ExtractEntitiesUsingRegex(text) == ExtractEntitiesAt(text, ZeroLastIndex)

\* extractGenesFromTitles
RECURSIVE TitleGenesAt(_, _)
TitleGenesAt(cs, index) ==
  IF cs = <<>> THEN <<>>
  ELSE (IF Truthy(Head(cs).title)
          THEN SelectSeq(MatchAllAt(GENE_PATTERN, Head(cs).title, index), IsGeneSymbol)
          ELSE <<>>)
         \o TitleGenesAt(Tail(cs), index)
TitleGenes(cs) == TitleGenesAt(cs, 0)
ExtractGenesFromTitles(cs) == Unique(TitleGenes(cs))

\* "${t}"[field] and the fragments built of it
Tagged(t, field) == <<"\"">> \o t \o <<"\"">> \o field
TaggedAll(terms, field) == [i \in DOMAIN terms |-> Tagged(terms[i], field)]
OrGroup(parts) == <<"(">> \o JoinText(parts, <<" ", "O", "R", " ">>) \o <<")">>

MeshTerms == <<"[", "M", "e", "S", "H", " ", "T", "e", "r", "m", "s", "]">>
TitleAbstract == <<"[", "T", "i", "t", "l", "e", "/", "A", "b", "s", "t", "r", "a", "c", "t",
      "]">>
GeneProteinName == <<"[", "G", "e", "n", "e", "/", "P", "r", "o", "t", "e", "i", "n", " ",
      "N", "a", "m", "e", "]">>

GeneticMesh ==
  << <<"G", "e", "n", "e", "s", ",", " ", "M", "e", "d", "i", "c", "a", "l", "[", "M", "e",
        "S", "H", " ", "T", "e", "r", "m", "s", "]">>,
     <<"G", "e", "n", "e", "t", "i", "c", " ", "P", "r", "e", "d", "i", "s", "p", "o", "s",
           "i", "t", "i", "o", "n", " ", "t", "o", " ", "D", "i", "s", "e", "a", "s", "e",
                 "[", "M", "e", "S", "H", " ", "T", "e", "r", "m", "s", "]">>,
     <<"M", "u", "t", "a", "t", "i", "o", "n", "[", "M", "e", "S", "H", " ", "T", "e", "r",
           "m", "s", "]">> >>
GeneticTiab ==
  << <<"g", "e", "n", "e">>, <<"g", "e", "n", "e", "t", "i", "c", "*">>, <<"m", "u", "t",
        "a", "t", "i", "o", "n", "*">>, <<"v", "a", "r", "i", "a", "n", "t", "*">>, <<"a",
              "l", "l", "e", "l", "e", "*">>, <<"p", "o", "l", "y", "m", "o", "r", "p", "h",
                    "i", "s", "m", "*">> >>
PathwayMesh ==
  << <<"S", "i", "g", "n", "a", "l", " ", "T", "r", "a", "n", "s", "d", "u", "c", "t", "i",
        "o", "n", "[", "M", "e", "S", "H", " ", "T", "e", "r", "m", "s", "]">>, <<"M", "e",
              "t", "a", "b", "o", "l", "i", "c", " ", "P", "a", "t", "h", "w", "a", "y", "s",
                    "[", "M", "e", "S", "H", " ", "T", "e", "r", "m", "s", "]">> >>
PathwayTiab ==
  << <<"p", "a", "t", "h", "w", "a", "y">>, <<"s", "i", "g", "n", "a", "l", "i", "n", "g">>,
        <<"s", "i", "g", "n", "a", "l", "l", "i", "n", "g">>, <<"c", "a", "s", "c", "a", "d",
              "e">>, <<"m", "e", "t", "a", "b", "o", "l", "i", "c", " ", "p", "r", "o", "c",
                    "e", "s", "s">> >>
ProteinMesh == << <<"P", "r", "o", "t", "e", "i", "n", "s", "[", "M", "e", "S", "H", " ",
      "T", "e", "r", "m", "s", "]">> >>
ProteinTiab == << <<"p", "r", "o", "t", "e", "i", "n">>, <<"r", "e", "c", "e", "p", "t", "o",
      "r">>, <<"e", "n", "z", "y", "m", "e">>, <<"k", "i", "n", "a", "s", "e">>, <<"a", "n",
            "t", "i", "b", "o", "d", "y">> >>

GeneFocusBlock == OrGroup(GeneticMesh \o TaggedAll(GeneticTiab, TitleAbstract))
PathwayFocusBlock == OrGroup(PathwayMesh \o TaggedAll(PathwayTiab, TitleAbstract))
ProteinFocusBlock == OrGroup(ProteinMesh \o TaggedAll(ProteinTiab, TitleAbstract))

\* the focus generateRuleBasedQuery takes: the if / else-if chain of step 2
ChosenFocus(isGeneFocused, isPathwayFocused, isProteinFocused, diseaseAdded) ==
  IF isGeneFocused THEN "gene"
  ELSE IF isPathwayFocused /\ ~diseaseAdded THEN "pathway"
  ELSE IF isProteinFocused /\ ~diseaseAdded THEN "protein"
  ELSE "none"

\* generateRuleBasedQuery with every focus of step 2 taken on its own: three
\* ifs, no else and no test of topicAdded
QueryPartsEachFocus(query, entities) ==
  LET queryLower == ToLowerCase(query)
      isGeneFocused == SomeIndicator("gene", queryLower)
      isPathwayFocused == SomeIndicator("pathway", queryLower)
      isProteinFocused == SomeIndicator("protein", queryLower)
      diseaseAdded == entities.diseases # <<>>
      topicAdded == diseaseAdded \/ isGeneFocused \/ isPathwayFocused \/ isProteinFocused
      geneNames == OrGroup(TaggedAll(entities.genes, GeneProteinName))
      pathNames == OrGroup(TaggedAll(entities.pathways, TitleAbstract))
      protNames == OrGroup(TaggedAll(entities.proteins, TitleAbstract))
  IN  (IF diseaseAdded
         THEN << OrGroup(TaggedAll(entities.diseases, MeshTerms)
                           \o TaggedAll(entities.diseases, TitleAbstract)) >>
         ELSE <<>>)
      \o (IF isGeneFocused
            THEN <<GeneFocusBlock>> \o (IF entities.genes # <<>> THEN <<geneNames>> ELSE <<>>)
            ELSE <<>>)
      \o (IF isPathwayFocused
            THEN <<PathwayFocusBlock>>
                   \o (IF entities.pathways # <<>> THEN <<pathNames>> ELSE <<>>)
            ELSE <<>>)
      \o (IF isProteinFocused
            THEN <<ProteinFocusBlock>>
                   \o (IF entities.proteins # <<>> THEN <<protNames>> ELSE <<>>)
            ELSE <<>>)
      \o (IF entities.pathways # <<>> /\ ~isPathwayFocused /\ topicAdded
            THEN <<pathNames>> ELSE <<>>)
      \o (IF entities.proteins # <<>> /\ ~isProteinFocused /\ topicAdded
            THEN <<protNames>> ELSE <<>>)
      \o (IF entities.genes # <<>> /\ ~isGeneFocused /\ topicAdded
            THEN <<geneNames>> ELSE <<>>)

\* the queryParts of generateRuleBasedQuery, in the order they are pushed
QueryParts(query, entities) ==
  LET queryLower == ToLowerCase(query)
      isGeneFocused == SomeIndicator("gene", queryLower)
      isPathwayFocused == SomeIndicator("pathway", queryLower)
      isProteinFocused == SomeIndicator("protein", queryLower)
      diseaseAdded == entities.diseases # <<>>
      focus == ChosenFocus(isGeneFocused, isPathwayFocused, isProteinFocused, diseaseAdded)
      topicAdded == diseaseAdded \/ focus # "none"
      geneNames == OrGroup(TaggedAll(entities.genes, GeneProteinName))
      pathNames == OrGroup(TaggedAll(entities.pathways, TitleAbstract))
      protNames == OrGroup(TaggedAll(entities.proteins, TitleAbstract))
      disease == IF diseaseAdded
                   THEN << OrGroup(TaggedAll(entities.diseases, MeshTerms)
                                     \o TaggedAll(entities.diseases, TitleAbstract)) >>
                   ELSE <<>>
      focused ==
        CASE focus = "gene" ->
               <<GeneFocusBlock>> \o (IF entities.genes # <<>> THEN <<geneNames>> ELSE <<>>)
          [] focus = "pathway" ->
               <<PathwayFocusBlock>> \o (IF entities.pathways # <<>> THEN <<pathNames>> ELSE <<>>)
          [] focus = "protein" ->
               <<ProteinFocusBlock>> \o (IF entities.proteins # <<>> THEN <<protNames>> ELSE <<>>)
          [] focus = "none" -> <<>>
      remaining ==
        (IF entities.pathways # <<>> /\ ~isPathwayFocused /\ topicAdded
           THEN <<pathNames>> ELSE <<>>)
        \o (IF entities.proteins # <<>> /\ ~isProteinFocused /\ topicAdded
              THEN <<protNames>> ELSE <<>>)
        \o (IF entities.genes # <<>> /\ ~isGeneFocused /\ topicAdded
              THEN <<geneNames>> ELSE <<>>)
  IN  disease \o focused \o remaining

GenerateRuleBasedQuery(query, entities) ==
  LET queryParts == QueryParts(query, entities)
  IN  IF queryParts # <<>> THEN JoinText(queryParts, <<" ", "A", "N", "D", " ">>)
      ELSE IF Includes(query, <<" ">>) /\ ~StartsWith(query, <<"\"">>)
                /\ ~EndsWith(query, <<"\"">>)
        THEN <<"\"">> \o query \o <<"\"">>
      ELSE query

\* lines 157-167: the filters of the final query
QueryFilters(prioritizeReviews, maxAgeYears) ==
  (IF prioritizeReviews THEN << <<"R", "e", "v", "i", "e", "w", "[", "P", "u", "b", "l", "i",
        "c", "a", "t", "i", "o", "n", " ", "T", "y", "p", "e", "]">> >> ELSE <<>>)
  \o (IF maxAgeYears.t = "num" /\ maxAgeYears.v > 0
        THEN << <<"(">> \o NumberToString(CurrentYear - maxAgeYears.v) \o <<"/", "0", "1",
              "/", "0", "1", "[", "P", "D", "A", "T", "]", " ", ":", " ">>
                  \o NumberToString(CurrentYear) \o <<"/", "1", "2", "/", "3", "1", "[", "P",
                        "D", "A", "T", "]", ")">> >>
        ELSE <<>>)

\* lines 169-179
NeedsParentheses(optimizedQuery) ==
  \/ Includes(optimizedQuery, <<" ", "A", "N", "D", " ">>)
  \/ Includes(optimizedQuery, <<" ", "O", "R", " ">>)
  \/ StartsWith(optimizedQuery, <<"(">>)

\* as FinalQuery, but the base query is put in parentheses always
FinalQueryAlwaysWrapped(optimizedQuery, prioritizeReviews, maxAgeYears) ==
  LET queryFilters == QueryFilters(prioritizeReviews, maxAgeYears)
  IN  IF queryFilters # <<>>
        THEN <<"(">> \o optimizedQuery \o <<")", " ", "A", "N", "D", " ", "(">>
               \o JoinText(queryFilters, <<" ", "A", "N", "D", " ">>) \o <<")">>
        ELSE optimizedQuery

FinalQuery(optimizedQuery, prioritizeReviews, maxAgeYears) ==
  LET queryFilters == QueryFilters(prioritizeReviews, maxAgeYears)
      filters == <<"(">> \o JoinText(queryFilters, <<" ", "A", "N", "D", " ">>) \o <<")">>
  IN  IF queryFilters # <<>>
        THEN IF NeedsParentheses(optimizedQuery)
               THEN <<"(">> \o optimizedQuery \o <<")", " ", "A", "N", "D", " ">> \o filters
               ELSE optimizedQuery \o <<" ", "A", "N", "D", " ">> \o filters
        ELSE optimizedQuery

(***************************************************************************)
(* The optional LLM strategy.  A reply of the chat completion API is an    *)
(* error, or a message content.                                            *)
(***************************************************************************)
\* strings: the keys of an entity reply whose value is a non-empty string
\* where an array of strings is expected; value then holds that string as
\* the one element of a list
NoReply == [ok |-> FALSE]
EntityReply(json, value) == [ok |-> TRUE, json |-> json, value |-> value, strings |-> {}]
EntityReplyStrings(value, strings) ==
  [ok |-> TRUE, json |-> TRUE, value |-> value, strings |-> strings]
TextReply(content) == [ok |-> TRUE, content |-> content]

\* if (!result[key]) result[key] = []
OrEmptyList(value, key) == IF key \in DOMAIN value THEN value[key] ELSE <<>>

\* extractEntitiesWithLlm: null without a client, when the call throws and
\* when the content is not JSON
ExtractEntitiesWithLlm(hasClient, reply) ==
  IF ~hasClient \/ ~reply.ok \/ ~reply.json
    THEN [null |-> TRUE, entities |-> EmptyEntities, strings |-> {}]
    ELSE [ null |-> FALSE, strings |-> reply.strings,
           entities |-> [ genes |-> OrEmptyList(reply.value, "genes"),
                          proteins |-> OrEmptyList(reply.value, "proteins"),
                          diseases |-> OrEmptyList(reply.value, "diseases"),
                          pathways |-> OrEmptyList(reply.value, "pathways"),
                          keywords |-> OrEmptyList(reply.value, "keywords") ] ]

IsQuote(c) == c \in {"\"", "'"}

\* .replace(/^["'](.*)['""]$/, '$1'): a dot matches no line break
StripQuotes(s) ==
  IF Len(s) >= 2 /\ IsQuote(s[1]) /\ IsQuote(s[Len(s)])
       /\ \A i \in 2..(Len(s) - 1) : s[i] # "\n"
    THEN SubSeq(s, 2, Len(s) - 1)
    ELSE s

\* the grave accent, which a string of this language cannot hold
Backtick == "grave"
\* .replace(/^FENCE.*\n([\s\S]*)\nFENCE$/, '$1'), FENCE being three grave accents
Fence == <<Backtick, Backtick, Backtick>>
StripFence(s) ==
  LET breaks == {i \in DOMAIN s : s[i] = "\n"}
      first == CHOOSE i \in breaks : \A j \in breaks : i <= j
  IN  IF StartsWith(s, Fence) /\ EndsWith(s, <<"\n">> \o Fence)
           /\ breaks # {} /\ first < Len(s) - 3
        THEN SubSeq(s, first + 1, Len(s) - 4)
        ELSE s

\* generateImprovedQueryWithLlm: items.join of line 416 throws on a string,
\* inside the try and before the request is made
GenerateImprovedQueryWithLlm(hasClient, reply, strings) ==
  IF ~hasClient \/ strings # {} \/ ~reply.ok
    THEN [query |-> Undef, success |-> FALSE]
    ELSE [query |-> Trim(StripFence(StripQuotes(Trim(reply.content)))), success |-> TRUE]

\* whether generateRuleBasedQuery throws a TypeError: .map on a group that
\* is a string, at lines 486, 506, 522, 535, 543, 547 or 551
RuleBasedQueryThrows(query, strings) ==
  LET queryLower == ToLowerCase(query)
      isGeneFocused == SomeIndicator("gene", queryLower)
      isPathwayFocused == SomeIndicator("pathway", queryLower)
      isProteinFocused == SomeIndicator("protein", queryLower)
      diseaseAdded == "diseases" \in strings
      focus == ChosenFocus(isGeneFocused, isPathwayFocused, isProteinFocused, diseaseAdded)
      topicAdded == diseaseAdded \/ focus # "none"
  IN  \/ "diseases" \in strings
      \/ "genes" \in strings /\ (focus = "gene" \/ (~isGeneFocused /\ topicAdded))
      \/ "pathways" \in strings /\ (focus = "pathway" \/ (~isPathwayFocused /\ topicAdded))
      \/ "proteins" \in strings /\ (focus = "protein" \/ (~isProteinFocused /\ topicAdded))

\* the replies of the two completions of one call
LlmReplies ==
  { [ entities |-> NoReply, query |-> NoReply ],
    [ entities |-> EntityReply(TRUE, [genes |-> << <<"T", "P", "5", "3">> >>]),
      query |-> TextReply(<<" ", " ">>) ],
    [ entities |-> EntityReply(FALSE, [genes |-> <<>>]),
      query |-> TextReply(<<"\"", "T", "P", "5", "3", "[", "G", "e", "n", "e", "]", " ", "A", "N", "D",
                             " ", "c", "a", "n", "c", "e", "r", "\"", " ">>) ],
    [ entities |-> EntityReplyStrings(
                      [diseases |-> << <<"l", "u", "n", "g", " ", "c", "a", "n", "c", "e", "r">> >>],
                      {"diseases"}),
      query |-> NoReply ] }

(***************************************************************************)
(* The calls of fetchCitations that are run                                *)
(***************************************************************************)
Q_Gene == <<"B", "R", "C", "A", "1">>
Q_Disease == <<"L", "u", "n", "g", " ", "c", "a", "n", "c", "e", "r">>

DefaultOptions ==
  [ maxCitations |-> Undefined, prioritizeReviews |-> "undefined",
    maxAgeYears |-> Undefined, useLlm |-> "undefined" ]

RuleCalls ==
  { [ query |-> Q_Gene, options |-> [DefaultOptions EXCEPT !.maxCitations = m] ] :
      m \in {Undefined, Num(0 - 1), Num(0), Num(1)} }
    \cup { [ query |-> Q_Disease, options |-> DefaultOptions ],
           [ query |-> Q_Gene,
             options |-> [DefaultOptions EXCEPT !.prioritizeReviews = "false",
                                                !.maxAgeYears = Num(0)] ] }
LlmCalls == { [ query |-> Q_Gene, options |-> [DefaultOptions EXCEPT !.useLlm = "true"] ] }

KeyCalls == { [ query |-> Q_Disease, options |-> DefaultOptions ] }

\* a service with an OpenAI client is called with useLlm; a service without
\* one is called with and without it, and with the defaults when it has an
\* NCBI key
PipeCalls(cfg) ==
  IF cfg.hasApiKey THEN KeyCalls
  ELSE IF cfg.hasOpenai THEN LlmCalls
  ELSE RuleCalls \cup LlmCalls

(***************************************************************************)
(* fetchCitations                                                          *)
(***************************************************************************)

\* a number as a condition: undefined, NaN and 0 are falsy
TruthyNum(x) == x.t = "num" /\ x.v # 0

\* options?.maxCitations || this.config.pubmed.maxCitations
EffectiveMaxCitations(optMax, cfgMax) == IF TruthyNum(optMax) THEN optMax.v ELSE cfgMax

\* options?.prioritizeReviews ?? this.config.pubmed.prioritizeReviews
EffectivePrioritizeReviews(optReviews, cfgReviews) ==
  IF optReviews = "undefined" THEN cfgReviews ELSE optReviews = "true"

\* options?.maxAgeYears ?? this.config.pubmed.maxAgeYears
EffectiveMaxAgeYears(optAge, cfgAge) == IF optAge.t = "undefined" THEN Num(cfgAge) ELSE optAge

\* options?.useLlm || false
EffectiveUseLlm(optUseLlm) == optUseLlm = "true"

\* maxCitations * 2
OverFetch(maxCitations) == maxCitations * 2

\* lines 196-200: rank, then citations.slice(0, maxCitations)
RankAndLimitNoSlice(cs, maxCitations) == IF Len(cs) > 0 THEN RankCitations(cs) ELSE cs
RankAndLimit(cs, maxCitations) ==
  IF Len(cs) > 0 THEN Slice0(RankCitations(cs), maxCitations) ELSE cs

\* if (!citations.length): the primary search yielded no results
NeedsFallbackBelowTwo(cs) == Len(cs) < 2
NeedsFallback(cs) == Len(cs) = 0

\* before a call: no call record, no result
NoCall ==
  [ query |-> <<>>, options |-> DefaultOptions, maxCitations |-> 0,
    entities |-> EmptyEntities, finalQuery |-> <<>>,
    extractionMethod |-> "regex", queryMethod |-> "rule",
    llmCalls |-> {}, llmOk |-> {} ]
NoResult ==
  [ query |-> <<>>, extractedEntities |-> EmptyEntities, optimizedQuery |-> <<>>,
    citations |-> <<>>, genesInTitles |-> <<>>,
    extractionMethod |-> "regex", queryMethod |-> "rule" ]

\* the fetchCitations call of a stream: not made yet
NoFetch == [state |-> "none", modelChunks |-> 0, citations |-> <<>>]

Parsed(path, body, ids, out) == [path |-> path, body |-> body, ids |-> ids, out |-> out]
NoPath == [done |-> FALSE, citations |-> <<>>, caught |-> FALSE]
Returned(cs) == [done |-> TRUE, citations |-> cs, caught |-> FALSE]
\* the catch of a path: log the error and return []
Caught == [done |-> TRUE, citations |-> <<>>, caught |-> TRUE]

\* lines 196-221: the tail of fetchCitations, from the list a path returned
Finish(cs) ==
  \E limited \in {RankAndLimit(cs, call.maxCitations)} :
      /\ unranked' = cs
      /\ citations' = limited
      /\ result' = [ query |-> call.query,
                     extractedEntities |-> call.entities,
                     optimizedQuery |-> call.finalQuery,
                     citations |-> limited,
                     genesInTitles |-> ExtractGenesFromTitles(limited),
                     extractionMethod |-> call.extractionMethod,
                     queryMethod |-> call.queryMethod ]
      /\ pc' = "done"
      /\ fpc' = "idle"
      /\ UNCHANGED <<now, freq, attempt, signalAt, startedAt, wakeAt, fresult, callNo,
                     httpLog, sleeps>>

\* xmlSearch up to its first request
StartXmlSearch ==
  /\ FetchCall(SearchRequest("xml", call.finalQuery, OverFetch(call.maxCitations),
                             config.timeoutLong))
  /\ pc' = "xmlSearch"

\* lines 97-186 and jsonFallbackSearch up to its first request
FetchCitations ==
  /\ pc = "start"
  /\ \E c \in PipeCalls(config), llm \in LlmReplies :
       LET query == c.query
           options == c.options
           maxCitations == EffectiveMaxCitations(options.maxCitations, config.maxCitations)
           prioritizeReviews == EffectivePrioritizeReviews(options.prioritizeReviews,
                                                           config.prioritizeReviews)
           maxAgeYears == EffectiveMaxAgeYears(options.maxAgeYears, config.maxAgeYears)
           useLlm == EffectiveUseLlm(options.useLlm)
           askEntities == useLlm /\ config.hasOpenai /\ config.useLlmExtraction
           llmEntities == IF askEntities
                            THEN ExtractEntitiesWithLlm(config.hasOpenai, llm.entities)
                            ELSE [null |-> TRUE, entities |-> EmptyEntities, strings |-> {}]
           entities == IF llmEntities.null THEN ExtractEntitiesUsingRegex(query)
                       ELSE llmEntities.entities
           askQuery == useLlm /\ config.hasOpenai /\ config.useLlmQueryGeneration
           llmQuery == IF askQuery
                         THEN GenerateImprovedQueryWithLlm(config.hasOpenai, llm.query,
                                                           llmEntities.strings)
                         ELSE [query |-> Undef, success |-> FALSE]
           byLlm == llmQuery.success /\ Truthy(llmQuery.query)
           throws == ~byLlm /\ RuleBasedQueryThrows(query, llmEntities.strings)
           optimizedQuery == IF byLlm THEN llmQuery.query
                             ELSE IF throws THEN <<>>
                             ELSE GenerateRuleBasedQuery(query, entities)
           finalQuery == IF throws THEN <<>>
                         ELSE FinalQuery(optimizedQuery, prioritizeReviews, maxAgeYears)
       IN  /\ call' = [ query |-> query, options |-> options,
                        maxCitations |-> maxCitations,
                        entities |-> entities, finalQuery |-> finalQuery,
                        extractionMethod |-> IF llmEntities.null THEN "regex" ELSE "openai",
                        queryMethod |-> IF byLlm THEN "openai" ELSE "rule",
                        llmCalls |-> (IF askEntities THEN {"entities"} ELSE {})
                                       \cup (IF askQuery /\ llmEntities.strings = {}
                                               THEN {"query"} ELSE {}),
                        llmOk |-> (IF ~llmEntities.null THEN {"entities"} ELSE {})
                                    \cup (IF llmQuery.success THEN {"query"} ELSE {}) ]
           /\ IF throws
                \* the TypeError of generateRuleBasedQuery leaves fetchCitations
                THEN /\ pc' = "raised"
                     /\ UNCHANGED fetchVars
                ELSE /\ pc' = "jsonSearch"
                     /\ FetchCall(SearchRequest("json", finalQuery, OverFetch(maxCitations),
                                                config.timeoutLong))
  /\ UNCHANGED <<config, pmids, citations, unranked, jsonReturned, xmlReturned, result, parsed>>

\* jsonFallbackSearch: the search answered with no identifier; return [],
\* and fetchCitations goes on to xmlSearch
JsonSearchEmpty ==
  /\ pc = "jsonSearch" /\ fpc = "returned"
  /\ ParseSearchJson(fresult.data) = <<>>
  /\ jsonReturned' = Returned(<<>>)
  /\ StartXmlSearch
  /\ UNCHANGED <<config, call, pmids, citations, unranked, xmlReturned, result, parsed>>

\* jsonFallbackSearch: the search answered with identifiers; ask for their
\* summaries
JsonSearchFound ==
  /\ pc = "jsonSearch" /\ fpc = "returned"
  /\ ParseSearchJson(fresult.data) # <<>>
  /\ pmids' = ParseSearchJson(fresult.data)
  /\ FetchCall(SummaryRequest(ParseSearchJson(fresult.data), config.timeoutLong))
  /\ pc' = "jsonSummary"
  /\ UNCHANGED <<config, call, citations, unranked, jsonReturned, xmlReturned, result, parsed>>

\* jsonFallbackSearch: a request threw; catch, return [], and fetchCitations
\* goes on to xmlSearch
JsonPathThrew ==
  /\ pc \in {"jsonSearch", "jsonSummary"} /\ fpc = "threw"
  /\ jsonReturned' = Caught
  /\ StartXmlSearch
  /\ pmids' = <<>>
  /\ UNCHANGED <<config, call, citations, unranked, xmlReturned, result, parsed>>

\* as JsonSummaryEmpty, but a summary body that does not parse ends the call
\* with no citation instead of starting xmlSearch
JsonSummaryEmptyNoFallback ==
  /\ pc = "jsonSummary" /\ fpc = "returned"
  /\ \E out \in {ParseSummary(fresult.data, pmids)} :
         /\ NeedsFallback(out)
         /\ parsed' = Parsed("json", fresult.data, pmids, out)
         /\ jsonReturned' = Returned(out)
         /\ IF fresult.data.json
              THEN StartXmlSearch /\ UNCHANGED <<citations, unranked, result>>
              ELSE Finish(out)
  /\ pmids' = <<>>
  /\ UNCHANGED <<config, call, xmlReturned>>

\* jsonFallbackSearch: the summaries gave no citation; fetchCitations goes
\* on to xmlSearch
JsonSummaryEmpty ==
  /\ pc = "jsonSummary" /\ fpc = "returned"
  /\ \E out \in {ParseSummary(fresult.data, pmids)} :
         /\ NeedsFallback(out)
         /\ parsed' = Parsed("json", fresult.data, pmids, out)
         /\ jsonReturned' = Returned(out)
  /\ StartXmlSearch
  /\ pmids' = <<>>
  /\ UNCHANGED <<config, call, citations, unranked, xmlReturned, result>>

\* jsonFallbackSearch: the summaries gave citations; fetchCitations ranks,
\* limits and returns
JsonSummaryParsed ==
  /\ pc = "jsonSummary" /\ fpc = "returned"
  /\ \E out \in {ParseSummary(fresult.data, pmids)} :
         /\ ~NeedsFallback(out)
         /\ parsed' = Parsed("json", fresult.data, pmids, out)
         /\ jsonReturned' = Returned(out)
         /\ Finish(out)
  /\ pmids' = <<>>
  /\ UNCHANGED <<config, call, xmlReturned>>

\* xmlSearch: the search answered with no identifier; return []
XmlSearchEmpty ==
  /\ pc = "xmlSearch" /\ fpc = "returned"
  /\ ParseSearchXml(fresult.data) = <<>>
  /\ xmlReturned' = Returned(<<>>)
  /\ Finish(<<>>)
  /\ UNCHANGED <<config, call, pmids, jsonReturned, parsed>>

\* xmlSearch: the search answered with identifiers; fetch their records
XmlSearchFound ==
  /\ pc = "xmlSearch" /\ fpc = "returned"
  /\ ParseSearchXml(fresult.data) # <<>>
  /\ pmids' = ParseSearchXml(fresult.data)
  /\ FetchCall(EfetchRequest(ParseSearchXml(fresult.data), config.timeoutLong))
  /\ pc' = "xmlFetch"
  /\ UNCHANGED <<config, call, citations, unranked, jsonReturned, xmlReturned, result, parsed>>

\* xmlSearch without its catch: the error leaves fetchCitations
XmlPathThrewRaises ==
  /\ pc \in {"xmlSearch", "xmlFetch"} /\ fpc = "threw"
  /\ pc' = "raised"
  /\ fpc' = "idle"
  /\ UNCHANGED <<config, now, freq, attempt, signalAt, startedAt, wakeAt, fresult, callNo,
                 httpLog, sleeps, call, pmids, citations, unranked, jsonReturned, xmlReturned,
                 parsed, result>>

\* xmlSearch: a request threw; catch and return []
XmlPathThrew ==
  /\ pc \in {"xmlSearch", "xmlFetch"} /\ fpc = "threw"
  /\ xmlReturned' = Caught
  /\ Finish(<<>>)
  /\ pmids' = <<>>
  /\ UNCHANGED <<config, call, jsonReturned, parsed>>

\* xmlSearch: the records are parsed; fetchCitations ranks, limits and returns
XmlFetchParsed ==
  /\ pc = "xmlFetch" /\ fpc = "returned"
  /\ \E out \in {ParsePubmedXml(fresult.data)} :
         /\ parsed' = Parsed("xml", fresult.data, pmids, out)
         /\ xmlReturned' = Returned(out)
         /\ Finish(out)
  /\ pmids' = <<>>
  /\ UNCHANGED <<config, call, jsonReturned>>

(***************************************************************************)
(* Spec: one call of fetchCitations.  Each attempt is answered after       *)
(* 100 ms with status 200 or 500; the backoff jitter is 0.                 *)
(***************************************************************************)
PipeOutcomes == {o \in Outcomes({200, 500}, {100}) : o.kind = "http"}
PipeJitters == {0}

PipeIdle ==
  /\ call = NoCall
  /\ pmids = <<>>
  /\ citations = <<>>
  /\ unranked = <<>>
  /\ jsonReturned = NoPath
  /\ xmlReturned = NoPath
  /\ parsed = Parsed("none", <<>>, <<>>, <<>>)
  /\ result = NoResult

FetchIdle ==
  /\ now = 0
  /\ fpc = "idle"
  /\ freq = None
  /\ attempt = 0
  /\ signalAt = 0
  /\ startedAt = 0
  /\ wakeAt = 0
  /\ fresult = None
  /\ callNo = 0
  /\ httpLog = <<>>
  /\ sleeps = <<>>

\* no text is being worked on outside fetchCitations
\* no stream has been asked for
StreamIdle ==
  /\ sPc = "idle"
  /\ sModel = None
  /\ sQueue = <<>>
  /\ sState = "readable"
  /\ sCloses = 0
  /\ sErrors = 0
  /\ sFetch = NoFetch

QueryIdle ==
  /\ qText = <<>>
  /\ qEntities = EmptyEntities
  /\ qParts = <<>>
  /\ qBuilt = <<>>
  /\ qOptions = DefaultOptions
  /\ qFinal = <<>>
  /\ calls = <<>>
  /\ lastIndex = ZeroLastIndex
  /\ StreamIdle

Init ==
  /\ config \in PipeConfigs \cup KeyConfigs
  /\ FetchIdle
  /\ PipeIdle
  /\ QueryIdle
  /\ pc = "start"

Next ==
  /\ \/ FetchCitations
     \/ AttemptStart /\ UNCHANGED <<config, pipeVars>>
     \/ AttemptSucceeds(PipeOutcomes) /\ UNCHANGED <<config, pipeVars>>
     \/ DelayDone /\ UNCHANGED <<config, pipeVars>>
     \/ AttemptFailsRetry(PipeOutcomes, PipeJitters) /\ UNCHANGED <<config, pipeVars>>
     \/ BackoffDone /\ UNCHANGED <<config, pipeVars>>
     \/ AttemptFailsFinal(PipeOutcomes) /\ UNCHANGED <<config, pipeVars>>
     \/ JsonSearchEmpty
     \/ JsonSearchFound
     \/ JsonPathThrew
     \/ JsonSummaryEmpty
     \/ JsonSummaryParsed
     \/ XmlSearchEmpty
     \/ XmlSearchFound
     \/ XmlPathThrew
     \/ XmlFetchParsed
  /\ UNCHANGED <<queryVars, sharedVars, streamVars>>

Spec == Init /\ [][Next]_vars

(***************************************************************************)
(* SpecFetch: one call of fetchWithRetry against every behaviour of the    *)
(* remote end.                                                             *)
(***************************************************************************)
FetchStatuses == {200, 429, 500}
FetchLatencies == {100, 12000}
FetchJitters == {0, 500, JitterRange - 1}
FetchOutcomes == Outcomes(FetchStatuses, FetchLatencies)
FetchRequests ==
  { SearchRequest("json", Q_Gene, 2 * DefaultMaxCitations, t) :
      t \in {DefaultTimeoutShort, DefaultTimeoutLong} }

InitFetch ==
  /\ config \in FetchConfigs
  /\ FetchIdle
  /\ PipeIdle
  /\ QueryIdle
  /\ pc = "fetchOnly"

CallOnce ==
  /\ fpc = "idle"
  /\ callNo = 0
  /\ \E req \in FetchRequests : FetchCall(req)

NextFetch ==
  /\ \/ CallOnce
     \/ AttemptStart
     \/ AttemptSucceeds(FetchOutcomes)
     \/ DelayDone
     \/ AttemptFailsRetry(FetchOutcomes, FetchJitters)
     \/ BackoffDone
     \/ AttemptFailsFinal(FetchOutcomes)
  /\ UNCHANGED <<config, pipeVars, queryVars, sharedVars, streamVars>>

SpecFetch == InitFetch /\ [][NextFetch]_vars

(***************************************************************************)
(* SpecRank: rankCitations applied to every list of up to MaxRankLen       *)
(* citations whose year is absent, empty, a year from MaxYearsOld years    *)
(* ago to next year, or text that is no number.                            *)
(***************************************************************************)
RankYears ==
  {Undef, <<>>, NotAYear} \cup {YearString(y) : y \in (CurrentYear - MaxYearsOld)..(CurrentYear + 1)}

RankInputs ==
  UNION { [1..n -> [isReview : BOOLEAN, year : RankYears]] : n \in 0..MaxRankLen }

InitRank ==
  /\ config \in PipeConfigs
  /\ FetchIdle
  /\ QueryIdle
  /\ call = NoCall
  /\ pmids = <<>>
  /\ jsonReturned = NoPath
  /\ xmlReturned = NoPath
  /\ parsed = Parsed("none", <<>>, <<>>, <<>>)
  /\ result = NoResult
  /\ pc = "rank"
  /\ \E in \in RankInputs :
       citations = [i \in DOMAIN in |->
                      Citation(<<"T">>, <<"A">>, <<"J">>, PmidNames[i], in[i].year, in[i].isReview)]
  /\ unranked = citations

\* this.rankCitations(citations)
Rank ==
  /\ pc = "rank"
  /\ unranked' = citations
  /\ citations' = RankCitations(citations)
  /\ pc' = "ranked"
  /\ UNCHANGED <<call, pmids, jsonReturned, xmlReturned, parsed, result>>

NextRank == Rank /\ UNCHANGED <<config, fetchVars, queryVars, sharedVars, streamVars>>

SpecRank == InitRank /\ [][NextRank]_vars

(***************************************************************************)
(* SpecQuery: extractEntitiesUsingRegex and generateRuleBasedQuery applied *)
(* to every text of up to MaxWords words of a vocabulary, the builder with *)
(* the entities the extractor found or with entities its caller gives.     *)
(***************************************************************************)
W_Pathway == <<"W", "n", "t", " ", "s", "i", "g", "n", "a", "l", "i", "n", "g">>
W_Protein == <<"I", "n", "s", "u", "l", "i", "n", " ", "r", "e", "c", "e", "p", "t", "o", "r">>
W_Mutation == <<"m", "u", "t", "a", "t", "i", "o", "n">>
W_Plain == <<"h", "e", "l", "l", "o">>
W_Quoted == <<"\"", "b", "\"">>
W_Kinase == <<"k", "i", "n", "a", "s", "e">>
W_Tp53 == <<"T", "P", "5", "3">>

QueryWords ==
  {Q_Gene, Q_Disease, W_Pathway, W_Protein, W_Mutation, W_Plain, W_Quoted, W_Kinase}
QueryTexts ==
  { JoinText(ws, <<" ">>) : ws \in UNION { [1..n -> QueryWords] : n \in 0..MaxWords } }

\* the entities a caller of generateRuleBasedQuery gives: each group empty
\* or not
EntitySets ==
  [ genes : {<<>>, <<W_Tp53, Q_Gene>>}, proteins : {<<>>, <<W_Protein>>},
    diseases : {<<>>, <<Q_Disease>>}, pathways : {<<>>, <<W_Pathway>>},
    keywords : {<<>>} ]

\* the base queries an LLM gives: a term, terms joined by an operator, and a
\* term in parentheses
LlmQueries ==
  { <<"T", "P", "5", "3">>,
    <<"T", "P", "5", "3", "[", "G", "e", "n", "e", "]", " ", "A", "N", "D", " ", "c", "a",
      "n", "c", "e", "r">>,
    <<"p", "5", "3", " ", "O", "R", " ", "T", "P", "5", "3">>,
    <<"(", "T", "P", "5", "3", ")">> }

\* what a caller gives for prioritizeReviews and maxAgeYears
FilterOptions ==
  { [DefaultOptions EXCEPT !.prioritizeReviews = r, !.maxAgeYears = a] :
      r \in {"undefined", "true", "false"},
      a \in {Undefined, Num(0), Num(1), Num(0 - 1)} }

InitQuery ==
  /\ config \in {c \in PipeConfigs : ~c.hasOpenai}
  /\ FetchIdle
  /\ PipeIdle
  /\ qText \in QueryTexts
  /\ qEntities = EmptyEntities
  /\ qParts = <<>>
  /\ qBuilt = <<>>
  /\ qOptions = DefaultOptions
  /\ qFinal = <<>>
  /\ calls = <<>>
  /\ lastIndex = ZeroLastIndex
  /\ StreamIdle
  /\ pc = "query"

\* this.extractEntitiesUsingRegex(query)
ExtractRegex ==
  /\ pc = "query"
  /\ qEntities' = ExtractEntitiesUsingRegex(qText)
  /\ pc' = "regex"
  /\ UNCHANGED <<qText, qParts, qBuilt, qOptions, qFinal>>

\* entities that come from elsewhere
GivenEntities ==
  /\ pc = "query"
  /\ \E e \in EntitySets : qEntities' = e
  /\ pc' = "given"
  /\ UNCHANGED <<qText, qParts, qBuilt, qOptions, qFinal>>

\* this.generateRuleBasedQuery(query, entities)
BuildQuery ==
  /\ pc \in {"regex", "given"}
  /\ qParts' = QueryParts(qText, qEntities)
  /\ qBuilt' = GenerateRuleBasedQuery(qText, qEntities)
  /\ pc' = "built"
  /\ UNCHANGED <<qText, qEntities, qOptions, qFinal>>

\* a base query that comes from generateImprovedQueryWithLlm
GivenQuery ==
  /\ pc = "query"
  /\ qText = Q_Gene
  /\ \E q \in LlmQueries : qBuilt' = q
  /\ pc' = "generated"
  /\ UNCHANGED <<qText, qEntities, qParts, qOptions, qFinal>>

\* lines 104-105 and 157-181 of fetchCitations: the options, the filters and
\* the final query
CombineFilters ==
  /\ pc \in {"built", "generated"}
  /\ \E o \in FilterOptions :
       /\ qOptions' = o
       /\ qFinal' = FinalQuery(qBuilt,
                               EffectivePrioritizeReviews(o.prioritizeReviews,
                                                          config.prioritizeReviews),
                               EffectiveMaxAgeYears(o.maxAgeYears, config.maxAgeYears))
  /\ pc' = "final"
  /\ UNCHANGED <<qText, qEntities, qParts, qBuilt>>

NextQuery ==
  /\ \/ ExtractRegex
     \/ GivenEntities
     \/ BuildQuery
     \/ GivenQuery
     \/ CombineFilters
  /\ UNCHANGED <<config, fetchVars, call, pmids, citations, unranked, jsonReturned,
                 xmlReturned, parsed, result, sharedVars, streamVars>>

SpecQuery == InitQuery /\ [][NextQuery]_vars

(***************************************************************************)
(* SpecConcurrent: MaxCalls calls of fetchCitations on one service, their  *)
(* steps interleaved at the awaits.  What a call shares with the others is *)
(* the configuration and the patterns of the module; each fetchWithRetry   *)
(* is one step, which answers with a body or throws its terminal error.    *)
(***************************************************************************)
MaxCalls == 2

ConcurrentCalls ==
  { [ query |-> Q_Gene, options |-> DefaultOptions ],
    [ query |-> Q_Disease, options |-> [DefaultOptions EXCEPT !.maxCitations = Num(1)] ] }

\* the local variables of a call that has not started
NotCalled ==
  [ pc |-> "start", query |-> <<>>, options |-> DefaultOptions, maxCitations |-> 0,
    entities |-> EmptyEntities, finalQuery |-> <<>>, pmids |-> <<>>,
    answers |-> <<>>, overlapped |-> FALSE, result |-> NoResult ]

\* the bodies the service answers with here: two identifiers and a
\* well-formed record for each
ConcurrentBodies(req) ==
  CASE req.url = "esearch.fcgi" /\ req.retmode = "json" ->
         {b \in SearchJsonBodies : b.json /\ Len(b.idlist) = 2}
    [] req.url = "esearch.fcgi" /\ req.retmode = "xml" ->
         {b \in SearchXmlBodies : Len(b.ids) = 2}
    [] req.url = "esummary.fcgi" ->
         {b \in SummaryBodies(req) :
            /\ b.json
            /\ \A k \in DOMAIN IdsOf(req) : IdsOf(req)[k] \in DOMAIN b.result
            /\ \A p \in DOMAIN b.result : b.result[p] = GoodEntry}
    [] req.url = "efetch.fcgi" ->
         {b \in EfetchBodies(req) : \A k \in DOMAIN b : b[k] = GoodUnit(IdsOf(req)[k])}

\* what awaiting fetchWithRetry gives: the terminal error or a response
Threw == [threw |-> TRUE, data |-> <<>>]
Answers(req) == {Threw} \cup {[threw |-> FALSE, data |-> b] : b \in ConcurrentBodies(req)}

InFlight == {j \in DOMAIN calls : calls[j].pc \notin {"start", "done"}}

\* lines 196-221 for call i, from the list a path returned
ConcurrentFinish(i, a, cs) ==
  \E limited \in {RankAndLimit(cs, calls[i].maxCitations)} :
    calls' = [calls EXCEPT ![i] =
      [@ EXCEPT !.pc = "done",
                !.answers = Append(@, a),
                !.result = [ query |-> calls[i].query,
                             extractedEntities |-> calls[i].entities,
                             optimizedQuery |-> calls[i].finalQuery,
                             citations |-> limited,
                             genesInTitles |-> Unique(TitleGenesAt(limited, lastIndex.gene)),
                             extractionMethod |-> "regex",
                             queryMethod |-> "rule" ]]]

\* the request a call is waiting for, by the point it has reached
ConcurrentRequest(c) ==
  CASE c.pc = "jsonSearch" ->
         SearchRequest("json", c.finalQuery, OverFetch(c.maxCitations), config.timeoutLong)
    [] c.pc = "jsonSummary" -> SummaryRequest(c.pmids, config.timeoutLong)
    [] c.pc = "xmlSearch" ->
         SearchRequest("xml", c.finalQuery, OverFetch(c.maxCitations), config.timeoutLong)
    [] c.pc = "xmlFetch" -> EfetchRequest(c.pmids, config.timeoutLong)

\* lines 97-186 of call i, up to the first await; the calls are numbered in
\* the order they arrive
ConcurrentFetchCitations(i) ==
  /\ calls[i].pc = "start"
  /\ \A j \in 1..(i - 1) : calls[j].pc # "start"
  /\ \E c \in ConcurrentCalls :
       \E ents \in {ExtractEntitiesAt(c.query, lastIndex)} :
         /\ calls' = [calls EXCEPT ![i] =
              [@ EXCEPT !.pc = "jsonSearch",
                        !.query = c.query,
                        !.options = c.options,
                        !.maxCitations =
                           EffectiveMaxCitations(c.options.maxCitations, config.maxCitations),
                        !.entities = ents,
                        !.finalQuery =
                           FinalQuery(GenerateRuleBasedQuery(c.query, ents),
                                      EffectivePrioritizeReviews(c.options.prioritizeReviews,
                                                                 config.prioritizeReviews),
                                      EffectiveMaxAgeYears(c.options.maxAgeYears,
                                                           config.maxAgeYears)),
                        !.overlapped = (InFlight # {})]]
         /\ lastIndex' = LastIndexAfterMatchAll(lastIndex, c.query)

\* jsonFallbackSearch of call i, after its search request
ConcurrentJsonSearch(i) ==
  /\ calls[i].pc = "jsonSearch"
  /\ \E a \in Answers(ConcurrentRequest(calls[i])) :
       LET ids == IF a.threw THEN <<>> ELSE ParseSearchJson(a.data)
       IN  calls' = [calls EXCEPT ![i] =
             [@ EXCEPT !.pc = IF ids = <<>> THEN "xmlSearch" ELSE "jsonSummary",
                       !.pmids = ids,
                       !.answers = Append(@, a)]]
  /\ UNCHANGED lastIndex

\* jsonFallbackSearch of call i, after its summary request
ConcurrentJsonSummary(i) ==
  /\ calls[i].pc = "jsonSummary"
  /\ \E a \in Answers(ConcurrentRequest(calls[i])) :
       \E cs \in {IF a.threw THEN <<>> ELSE ParseSummary(a.data, calls[i].pmids)} :
         IF NeedsFallback(cs)
           THEN calls' = [calls EXCEPT ![i] =
                  [@ EXCEPT !.pc = "xmlSearch", !.pmids = <<>>, !.answers = Append(@, a)]]
           ELSE ConcurrentFinish(i, a, cs)
  /\ UNCHANGED lastIndex

\* xmlSearch of call i, after its search request
ConcurrentXmlSearch(i) ==
  /\ calls[i].pc = "xmlSearch"
  /\ \E a \in Answers(ConcurrentRequest(calls[i])) :
       LET ids == IF a.threw THEN <<>> ELSE ParseSearchXml(a.data)
       IN  IF ids = <<>>
             THEN ConcurrentFinish(i, a, <<>>)
             ELSE calls' = [calls EXCEPT ![i] =
                    [@ EXCEPT !.pc = "xmlFetch", !.pmids = ids, !.answers = Append(@, a)]]
  /\ UNCHANGED lastIndex

\* xmlSearch of call i, after its efetch request
ConcurrentXmlFetch(i) ==
  /\ calls[i].pc = "xmlFetch"
  /\ \E a \in Answers(ConcurrentRequest(calls[i])) :
       ConcurrentFinish(i, a, IF a.threw THEN <<>> ELSE ParsePubmedXml(a.data))
  /\ UNCHANGED lastIndex

InitConcurrent ==
  /\ config \in {c \in PipeConfigs : ~c.hasOpenai}
  /\ FetchIdle
  /\ PipeIdle
  /\ qText = <<>>
  /\ qEntities = EmptyEntities
  /\ qParts = <<>>
  /\ qBuilt = <<>>
  /\ qOptions = DefaultOptions
  /\ qFinal = <<>>
  /\ calls = [i \in 1..MaxCalls |-> NotCalled]
  /\ lastIndex = ZeroLastIndex
  /\ StreamIdle
  /\ pc = "concurrent"

NextConcurrent ==
  /\ \E i \in DOMAIN calls :
       \/ ConcurrentFetchCitations(i)
       \/ ConcurrentJsonSearch(i)
       \/ ConcurrentJsonSummary(i)
       \/ ConcurrentXmlSearch(i)
       \/ ConcurrentXmlFetch(i)
  /\ UNCHANGED <<config, fetchVars, pipeVars, queryVars, streamVars>>

SpecConcurrent == InitConcurrent /\ [][NextConcurrent]_vars

(***************************************************************************)
(* SpecStream: LlmService.generateResponseStream.  The stream it returns   *)
(* passes the chunks of the model on, then awaits fetchCitations and adds  *)
(* the citation block.  The chunks are kept without their time stamps.     *)
(***************************************************************************)
MaxChunks == 2

\* Model.GPT_4O and Model.LLAMA_3, each available
Models == {"gpt-4o", "meta/llama-3.1-405b-instruct"}

Chunk(id, n, model, content, finish) ==
  [ id |-> id, n |-> n, object |-> "chat.completion.chunk", model |-> model,
    content |-> content, finish_reason |-> finish ]

\* the chunks of the model: content, and its own finish chunk
ModelChunks(model) ==
  { Chunk("chatcmpl", 0, model, <<"B", "R", "C", "A", "1">>, None),
    Chunk("chatcmpl", 0, model, <<" ">>, None),
    Chunk("chatcmpl", 0, model, Undef, "stop") }

\* encodeURIComponent: letters, digits and - _ . ! ~ * ' ( ) stay, any other
\* character becomes the % escapes of its bytes
Unreserved == UpperSet \cup LowerSet \cup DigitSet \cup {"-", "_", ".", "!", "~", "*", "'", "(", ")"}
PercentCodes ==
  [ c \in {" ", "&", ";", "/", ":", ",", "?", "=", "+", "#", "%", "[", "]"} |->
      CASE c = " " -> <<"%", "2", "0">>
        [] c = "&" -> <<"%", "2", "6">>
        [] c = ";" -> <<"%", "3", "B">>
        [] c = "/" -> <<"%", "2", "F">>
        [] c = ":" -> <<"%", "3", "A">>
        [] c = "," -> <<"%", "2", "C">>
        [] c = "?" -> <<"%", "3", "F">>
        [] c = "=" -> <<"%", "3", "D">>
        [] c = "+" -> <<"%", "2", "B">>
        [] c = "#" -> <<"%", "2", "3">>
        [] c = "%" -> <<"%", "2", "5">>
        [] c = "[" -> <<"%", "5", "B">>
        [] c = "]" -> <<"%", "5", "D">> ]
RECURSIVE EncodeURIComponent(_)
EncodeURIComponent(text) ==
  IF text = <<>> THEN <<>>
  ELSE (IF Head(text) \in Unreserved THEN <<Head(text)>> ELSE PercentCodes[Head(text)])
         \o EncodeURIComponent(Tail(text))

\* generateCitationMarkdown (lines 264-283)
NoCitationsFound == <<"No citations found.">>
CitationMarkdown(c) ==
  c.title \o <<" ", " ", "\n">> \o c.authors \o <<" ", " ", "\n">> \o c.journal \o <<"\n">>
    \o (IF Truthy(c.url)
          THEN <<"[Link](https://www.google.com/search?q=">> \o EncodeURIComponent(c.title)
                 \o <<"&btnI=I%27m%20Feeling%20Lucky)", "\n", "\n">>
          ELSE <<>>)
RECURSIVE GenerateCitationMarkdown(_)
GenerateCitationMarkdown(cs) ==
  IF cs = <<>> THEN NoCitationsFound
  ELSE CitationMarkdown(Head(cs))
         \o (IF Tail(cs) = <<>> THEN <<>> ELSE GenerateCitationMarkdown(Tail(cs)))

CitationsHeader == <<"\n", "\n", "#", "#", " ", "Citations", "\n", "\n">>

\* the three chunks of lines 127-175
CitationBlock(model, markdown) ==
  << Chunk("citation", 1, model, CitationsHeader, None),
     Chunk("citation", 2, model, markdown, None),
     Chunk("citation", 3, model, Undef, "stop") >>

\* the chunks enqueued whenever the markdown is not empty, "No citations
\* found." included
CitationChunksAlways(model, cs) ==
  IF Truthy(GenerateCitationMarkdown(cs))
    THEN CitationBlock(model, GenerateCitationMarkdown(cs))
    ELSE <<>>

\* lines 115-177: the chunks enqueued for the citations of the result
CitationChunks(model, cs) ==
  IF Len(cs) > 0
    THEN LET citationMarkdown == GenerateCitationMarkdown(cs)
         IN  IF Truthy(citationMarkdown) /\ citationMarkdown # NoCitationsFound
               THEN CitationBlock(model, citationMarkdown)
               ELSE <<>>
    ELSE <<>>

\* the citation lists fetchCitations returns to the stream: none, one of
\* the JSON path, that one and one of the markup path
StreamCitationLists ==
  LET j == SummaryCitation(ServiceIds[1], GoodEntry)
      x == ParsePubmedXml(<<GoodUnit(ServiceIds[2])>>)
  IN  {<<>>, <<j>>, <<j>> \o x}

InitStream ==
  /\ config \in {c \in PipeConfigs : ~c.hasOpenai}
  /\ FetchIdle
  /\ PipeIdle
  /\ QueryIdle
  /\ pc = "stream"

\* lines 67-97: the model stream is created and the ReadableStream returned
GenerateResponseStream ==
  /\ sPc = "idle"
  /\ \E m \in Models : sModel' = m
  /\ sPc' = "model"
  /\ UNCHANGED <<sQueue, sState, sCloses, sErrors, sFetch>>

\* lines 101-103: a chunk of the model is enqueued
ModelChunkArrives ==
  /\ sPc = "model"
  /\ Len(sQueue) < MaxChunks
  /\ \E c \in ModelChunks(sModel) : sQueue' = Append(sQueue, c)
  /\ UNCHANGED <<sPc, sModel, sState, sCloses, sErrors, sFetch>>

\* lines 105-113: the model stream has ended; fetchCitations is called
ModelStreamEnds ==
  /\ sPc = "model"
  /\ sPc' = "fetching"
  /\ sFetch' = [state |-> "started", modelChunks |-> Len(sQueue), citations |-> <<>>]
  /\ UNCHANGED <<sModel, sQueue, sState, sCloses, sErrors>>

\* lines 184-187: the model stream threw; controller.error(error)
ModelStreamFails ==
  /\ sPc = "model"
  /\ sState' = "errored"
  /\ sErrors' = sErrors + 1
  /\ sPc' = "done"
  /\ UNCHANGED <<sModel, sQueue, sCloses, sFetch>>

\* controller.close() of line 183
ControllerClose ==
  /\ sState' = "closed"
  /\ sCloses' = sCloses + 1
  /\ sPc' = "done"
  /\ UNCHANGED <<sModel, sErrors>>

\* lines 110-183: fetchCitations returned; the citation block, then close
CitationsReturned ==
  /\ sPc = "fetching"
  /\ \E cs \in StreamCitationLists :
       /\ sFetch' = [sFetch EXCEPT !.state = "returned", !.citations = cs]
       /\ sQueue' = sQueue \o CitationChunks(sModel, cs)
  /\ ControllerClose

\* lines 178-183: fetchCitations threw; log the error, then close
CitationsThrew ==
  /\ sPc = "fetching"
  /\ sFetch' = [sFetch EXCEPT !.state = "threw"]
  /\ sQueue' = sQueue
  /\ ControllerClose

NextStream ==
  /\ \/ GenerateResponseStream
     \/ ModelChunkArrives
     \/ ModelStreamEnds
     \/ ModelStreamFails
     \/ CitationsReturned
     \/ CitationsThrew
  /\ UNCHANGED <<config, fetchVars, pipeVars, queryVars, sharedVars>>

SpecStream == InitStream /\ [][NextStream]_vars

(***************************************************************************)
(* Claims about fetchWithRetry, checked under SpecFetch                    *)
(***************************************************************************)

\* The backoff of one sleep without its jitter.
BaseSleep(s) == SleepMs(s.attempt, 0, s.rateLimited)

\* C1 (as stated): when every attempt of a call fails, the call makes exactly
\* maxRetries attempts before it raises, and the backoff slept between
\* consecutive attempts, ignoring jitter, never decreases.
C1_BackoffNeverDecreases ==
  fpc = "threw" =>
    /\ Len(httpLog) = config.maxRetries
    /\ \A i, j \in DOMAIN sleeps : i < j => BaseSleep(sleeps[i]) <= BaseSleep(sleeps[j])

\* C1 (amended): when every attempt of a call fails, the call makes exactly
\* maxRetries attempts, sleeps between each two of them and not after the
\* last, and only then raises; the exponential term 2^attempt s never
\* decreases, and the backoff slept, ignoring jitter, never decreases except
\* from a rate-limited (429) failure, floored at 5 s, to a later failure
\* that is not rate-limited.
C1_ExactAttemptsThenRaise ==
  /\ fpc = "threw" =>
       /\ Len(httpLog) = config.maxRetries
       /\ \A i \in DOMAIN httpLog : httpLog[i].attempt = i - 1 /\ ~ResponseOk(httpLog[i])
       /\ Len(sleeps) = config.maxRetries - 1
       /\ \A i, j \in DOMAIN sleeps : i < j =>
            /\ BackoffMs(sleeps[i].attempt, 0) <= BackoffMs(sleeps[j].attempt, 0)
            /\ (sleeps[i].rateLimited => sleeps[j].rateLimited)
                 => BaseSleep(sleeps[i]) <= BaseSleep(sleeps[j])
  /\ Len(httpLog) <= config.maxRetries

\* C1 witness: a call that raised after three failed attempts, the first
\* rate-limited and the second not.
C1_Witness ==
  /\ fpc = "threw"
  /\ Len(httpLog) = 3
  /\ Len(sleeps) = 2
  /\ sleeps[1].rateLimited /\ ~sleeps[2].rateLimited

\* C2 (as stated): the timeout is per attempt: an attempt that is aborted
\* by the timeout has run for the full timeout since its own start.
C2_TimeoutPerAttempt ==
  \A i \in DOMAIN httpLog :
    httpLog[i].kind = "timeout" =>
      httpLog[i].endedAt - httpLog[i].startedAt >= httpLog[i].timeout

\* the attempt of the log a sleep follows, and the one that follows the sleep
FailedBefore(s) ==
  CHOOSE i \in DOMAIN httpLog : httpLog[i].call = s.call /\ httpLog[i].attempt = s.attempt
StartedAfter(s) ==
  {i \in DOMAIN httpLog : httpLog[i].call = s.call /\ httpLog[i].attempt = s.attempt + 1}

\* C16: after a failed attempt number k (counted from 0) with attempts
\* remaining, the next attempt starts only after a sleep of at least 2^k
\* seconds and less than 2^k + 1 seconds, except that the sleep is at least
\* 5 seconds when the failure is an HTTP 429; after the final failed attempt
\* no sleep happens before the error is raised.
C16_SleepWindowAndFloor ==
  /\ \A i \in DOMAIN httpLog :
       ~ResponseOk(httpLog[i]) =>
         LET k == httpLog[i].attempt
             slept == {j \in DOMAIN sleeps :
                         sleeps[j].call = httpLog[i].call /\ sleeps[j].attempt = k}
         IN  IF k < config.maxRetries - 1
               THEN /\ Cardinality(slept) = 1
                    /\ \A j \in slept :
                         /\ sleeps[j].ms >= Pow2(k) * 1000
                         /\ IF httpLog[i].kind = "http" /\ httpLog[i].status = 429
                              THEN sleeps[j].ms >= 5000
                              ELSE sleeps[j].ms < (Pow2(k) + 1) * 1000
               ELSE slept = {}
  /\ \A j \in DOMAIN sleeps :
       /\ fpc = "backoff" /\ j = Len(sleeps) =>
            wakeAt = httpLog[FailedBefore(sleeps[j])].endedAt + sleeps[j].ms
       /\ \A i \in StartedAfter(sleeps[j]) :
            httpLog[i].startedAt >= httpLog[FailedBefore(sleeps[j])].endedAt + sleeps[j].ms
  /\ fpc = "threw" => now = httpLog[Len(httpLog)].endedAt

\* C16 witness: a call raised after three failed attempts: the first was
\* an HTTP 429 and was followed by a sleep of 5 s, the second was not and
\* was followed by a sleep of 2.999 s, the third by none.
C16_Witness ==
  /\ fpc = "threw"
  /\ Len(httpLog) = 3
  /\ httpLog[1].status = 429 /\ httpLog[2].status = 500
  /\ Len(sleeps) = 2
  /\ sleeps[1].ms = RateLimitFloorMs
  /\ sleeps[2].ms = 2 * 1000 + JitterRange - 1
  /\ httpLog[3].startedAt = httpLog[2].endedAt + 2999

(***************************************************************************)
(* Claims about rankCitations, checked under SpecRank                      *)
(***************************************************************************)

\* a >= b and a === b on JavaScript numbers: false when either is NaN
JsGeq(a, b) == a.t = "num" /\ b.t = "num" /\ a.v >= b.v
JsEq(a, b) == a.t = "num" /\ b.t = "num" /\ a.v = b.v

\* the place of a citation in the list handed to rankCitations
InputIndex(c) == CHOOSE i \in DOMAIN unranked : unranked[i].pmid = c.pmid

\* C8 (as stated): after rankCitations every review stands before every
\* citation that is not a review, whatever the year fields are.
C8_ReviewsBeforeOthers ==
  pc = "ranked" =>
    \A i, j \in DOMAIN citations :
      (citations[i].isReview /\ ~citations[j].isReview) => i < j

\* C9 (as stated): a year string that does not parse as a number is treated
\* like a missing year: the score is exactly 10 for a review and exactly 0
\* otherwise.
C9_UnparseableYearIsNoYear ==
  pc = "ranked" =>
    \A i \in DOMAIN citations :
      (Truthy(citations[i].year) /\ ParseInt(citations[i].year) = NaN) =>
        citations[i].relevanceScore =
          Num(IF citations[i].isReview THEN ReviewBonus * Scale ELSE 0)

\* C10 (as stated): rankCitations leaves a permutation of its input in
\* descending order of the stored relevanceScore, and citations of equal
\* score keep their input order.
C10_SortedDescendingStable ==
  pc = "ranked" =>
    /\ Len(citations) = Len(unranked)
    /\ \A k \in DOMAIN unranked : \E i \in DOMAIN citations :
         citations[i] = [unranked[k] EXCEPT !.relevanceScore = citations[i].relevanceScore]
    /\ \A i, j \in DOMAIN citations : i < j =>
         /\ JsGeq(citations[i].relevanceScore, citations[j].relevanceScore)
         /\ JsEq(citations[i].relevanceScore, citations[j].relevanceScore)
              => InputIndex(citations[i]) < InputIndex(citations[j])

(***************************************************************************)
(* Claims about fetchCitations, checked under Spec                         *)
(***************************************************************************)
IsJsonRequest(r) ==
  (r.url = "esearch.fcgi" /\ r.retmode = "json") \/ r.url = "esummary.fcgi"
IsXmlRequest(r) ==
  (r.url = "esearch.fcgi" /\ r.retmode = "xml") \/ r.url = "efetch.fcgi"
IsSearchRequest(r) == r.url = "esearch.fcgi"

\* every request issued so far: the attempts that ended, and the running call
RequestsIssued ==
  {httpLog[i].req : i \in DOMAIN httpLog} \cup (IF fpc = "idle" THEN {} ELSE {Logged(freq)})

\* C3: fetchCitations runs the JSON path first, and runs the markup path if
\* and only if the JSON path returned zero citations; once the JSON path
\* has returned a citation, no request of the markup path is issued.
C3_MarkupPathIffJsonEmpty ==
  /\ \A i, j \in DOMAIN httpLog :
       (i < j /\ IsXmlRequest(httpLog[i].req)) => IsXmlRequest(httpLog[j].req)
  /\ (\E r \in RequestsIssued : IsXmlRequest(r)) =>
       (jsonReturned.done /\ jsonReturned.citations = <<>>)
  /\ pc = "done" =>
       /\ jsonReturned.done
       /\ \E r \in RequestsIssued : IsJsonRequest(r)
       /\ (jsonReturned.citations = <<>>) <=> (\E r \in RequestsIssued : IsXmlRequest(r))
       /\ (jsonReturned.citations = <<>>) <=> xmlReturned.done

\* C3 witness: the JSON path returned one citation of two identifiers, and
\* the call is done without the markup path.
C3_Witness ==
  /\ pc = "done"
  /\ Len(jsonReturned.citations) = 1
  /\ Len(parsed.ids) = 2
  /\ ~xmlReturned.done

\* an attempt that was the last one allowed and failed
TerminalError(e) == e.attempt = config.maxRetries - 1 /\ ~ResponseOk(e)

\* a request of each path has ended in a terminal error
BothPathsFailed ==
  /\ \E i \in DOMAIN httpLog : IsJsonRequest(httpLog[i].req) /\ TerminalError(httpLog[i])
  /\ \E i \in DOMAIN httpLog : IsXmlRequest(httpLog[i].req) /\ TerminalError(httpLog[i])

\* C4: when a request of the JSON path and a request of the markup path have
\* both ended in a terminal transport error, fetchCitations does not raise:
\* once the error is handled the call has returned a result with no
\* citation, whose query, extractedEntities and optimizedQuery are the
\* values computed before fetching, the ones every successful fetch returns.
C4_BothPathsFailStillReturns ==
  (BothPathsFailed /\ fpc # "threw") =>
    /\ pc = "done"
    /\ result.citations = <<>>
    /\ result.query = call.query
    /\ result.extractedEntities = call.entities
    /\ result.optimizedQuery = call.finalQuery
    /\ call.extractionMethod = "regex" =>
         result.extractedEntities = ExtractEntitiesUsingRegex(call.query)
    /\ call.queryMethod = "rule" =>
         result.optimizedQuery =
           FinalQuery(GenerateRuleBasedQuery(call.query, call.entities),
                      EffectivePrioritizeReviews(call.options.prioritizeReviews,
                                                 config.prioritizeReviews),
                      EffectiveMaxAgeYears(call.options.maxAgeYears, config.maxAgeYears))

\* C4 witness: both paths failed terminally and the call returned the
\* entities and the filtered query of a disease question.
C4_Witness ==
  /\ BothPathsFailed
  /\ pc = "done"
  /\ result.query = Q_Disease
  /\ result.extractedEntities.diseases = <<Q_Disease>>
  /\ Len(result.optimizedQuery) > Len(Q_Disease)

\* C5 (as stated): for every requested maxCitations n the call returns at
\* most n citations and every search request asks for retmax = 2n.
C5_AtMostRequested ==
  (pc # "start" /\ call.options.maxCitations.t = "num") =>
    /\ pc = "done" => Len(result.citations) <= call.options.maxCitations.v
    /\ \A r \in RequestsIssued :
         IsSearchRequest(r) => r.retmax = NumberToString(2 * call.options.maxCitations.v)

\* the count fetchCitations works with: the requested one when positive, the
\* configured default when none or 0 is requested
RequestedOrDefault ==
  IF call.options.maxCitations.t = "num" /\ call.options.maxCitations.v # 0
    THEN call.options.maxCitations.v
    ELSE config.maxCitations

\* C5 (amended): for every positive requested maxCitations n the call
\* returns at most n citations and every search request of either path asks
\* for retmax = 2n; when maxCitations is not given or is 0, the configured
\* default takes the place of n.
C5_AtMostPositiveOrDefault ==
  (pc # "start" /\ RequestedOrDefault > 0) =>
    /\ pc = "done" => Len(result.citations) <= RequestedOrDefault
    /\ \A r \in RequestsIssued :
         IsSearchRequest(r) => r.retmax = NumberToString(2 * RequestedOrDefault)

\* C5 witness: one citation was asked for, a path returned two, one is
\* returned.
C5_Witness ==
  /\ pc = "done"
  /\ call.options.maxCitations = Num(1)
  /\ Len(unranked) = 2
  /\ Len(result.citations) = 1

\* the delay the claim names for the configuration
FixedDelay == IF config.hasApiKey THEN 110 ELSE 350

\* C17: every successful return of fetchWithRetry, on any attempt, is
\* preceded by the fixed post-request delay (110 ms with an API key, 350 ms
\* without), so within one fetchCitations call no HTTP request is issued
\* sooner than that delay after the previous successful response.
C17_DelayBeforeReturn ==
  /\ fpc = "returned" =>
       /\ ResponseOk(httpLog[Len(httpLog)])
       /\ now >= httpLog[Len(httpLog)].endedAt + FixedDelay
  /\ \A i, j \in DOMAIN httpLog :
       (i < j /\ ResponseOk(httpLog[i])) =>
         httpLog[j].startedAt >= httpLog[i].endedAt + FixedDelay
  /\ fpc = "inflight" =>
       \A i \in DOMAIN httpLog :
         ResponseOk(httpLog[i]) => startedAt >= httpLog[i].endedAt + FixedDelay

\* C17 witness: with an API key, the search succeeded at its first attempt
\* and the detail request at its last allowed one; each later request was
\* issued 110 ms after the response or later.
C17_Witness ==
  /\ config.hasApiKey
  /\ pc = "done"
  /\ Len(httpLog) = 3
  /\ ResponseOk(httpLog[1]) /\ httpLog[1].attempt = 0
  /\ httpLog[2].startedAt = httpLog[1].endedAt + DelayWithKey
  /\ ~ResponseOk(httpLog[2])
  /\ ResponseOk(httpLog[3]) /\ httpLog[3].attempt = config.maxRetries - 1
  /\ now = httpLog[3].endedAt + DelayWithKey

\* a record of a detail body that is well formed: for the JSON parser an
\* entry with a title whose fields have the expected types, for the markup
\* parser a complete article block with an identifier and a title
WellFormedEntry(e) == e.authors.shape # "other" /\ Truthy(e.title)
WellFormedUnit(u) == u.closed /\ u.pmid # None /\ u.title # Undef /\ CleanXmlText(u.title) # <<>>

\* C6 (as stated): a parse error is local to one record in both parsers:
\* every well-formed record of a response is returned as a citation,
\* whatever the other records of the response are.
C6_ParseErrorIsLocal ==
  /\ (parsed.path = "json" /\ parsed.body.json) =>
       \A i \in DOMAIN parsed.ids :
         (parsed.ids[i] \in DOMAIN parsed.body.result
            /\ WellFormedEntry(parsed.body.result[parsed.ids[i]]))
         => \E k \in DOMAIN parsed.out : parsed.out[k].pmid = parsed.ids[i]
  /\ parsed.path = "xml" =>
       \A i \in DOMAIN parsed.body :
         WellFormedUnit(parsed.body[i])
         => \E k \in DOMAIN parsed.out :
              /\ parsed.out[k].pmid = parsed.body[i].pmid
              /\ parsed.out[k].title = CleanXmlText(parsed.body[i].title)

\* C7 (as stated): every citation either parser emits has a non-empty title
\* taken from its source record; a record without a title is discarded.
C7_TitleFromRecord ==
  /\ parsed.path = "json" =>
       \A k \in DOMAIN parsed.out :
         /\ parsed.out[k].title # <<>>
         /\ parsed.out[k].title = parsed.body.result[parsed.out[k].pmid].title
  /\ parsed.path = "xml" =>
       \A k \in DOMAIN parsed.out : parsed.out[k].title # <<>>

(***************************************************************************)
(* Claims about extractEntitiesUsingRegex and generateRuleBasedQuery,      *)
(* checked under SpecQuery                                                 *)
(***************************************************************************)
NoSpecificEntity(e) ==
  e.genes = <<>> /\ e.proteins = <<>> /\ e.diseases = <<>> /\ e.pathways = <<>>

\* the text holds an indicator phrase of some type, in any case
HoldsIndicator(text) ==
  \E t \in DOMAIN QUERY_TYPE_INDICATORS :
    \E i \in DOMAIN QUERY_TYPE_INDICATORS[t] :
      Includes(ToLowerCase(text), QUERY_TYPE_INDICATORS[t][i])

\* C11 (as stated): extractEntitiesUsingRegex returns a non-empty keywords
\* list if and only if the genes, proteins, diseases and pathways lists it
\* returns are all empty.
C11_KeywordsIffNoEntity ==
  pc = "regex" => ((qEntities.keywords # <<>>) <=> NoSpecificEntity(qEntities))

\* C11 (amended): extractEntitiesUsingRegex returns a non-empty keywords
\* list if and only if the genes, proteins, diseases and pathways lists it
\* returns are all empty and the text holds, in any case, at least one
\* indicator phrase of the fixed vocabulary.
C11_KeywordsIffNoEntityAndIndicator ==
  pc = "regex" =>
    ((qEntities.keywords # <<>>) <=> (NoSpecificEntity(qEntities) /\ HoldsIndicator(qText)))

\* C11 witness: a text with an indicator phrase and no entity gave keywords.
C11_Witness ==
  /\ pc = "regex"
  /\ qText = W_Plain \o <<" ">> \o W_Mutation
  /\ NoSpecificEntity(qEntities)
  /\ Len(qEntities.keywords) = Len(QUERY_TYPE_INDICATORS.gene)

\* whether the text given is gene-, pathway- or protein-focused
IsFocused(type) == SomeIndicator(type, ToLowerCase(qText))

\* the places of the fixed vocabulary blocks among the fragments
FocusBlocks == {GeneFocusBlock, PathwayFocusBlock, ProteinFocusBlock}
FocusPlaces == {i \in DOMAIN qParts : qParts[i] \in FocusBlocks}

\* C12: generateRuleBasedQuery emits at most one of the three fixed focus
\* vocabulary blocks (gene-focus, pathway-focus, protein-focus), even when
\* several of geneFocused, pathwayFocused and proteinFocused are true.
C12_AtMostOneFocusBlock ==
  pc = "built" => Cardinality(FocusPlaces) <= 1

\* C12 witness: a pathway- and protein-focused text without disease entity
\* was built into a query with the pathway block alone.
C12_Witness ==
  /\ pc = "built"
  /\ IsFocused("pathway") /\ IsFocused("protein") /\ ~IsFocused("gene")
  /\ qEntities.diseases = <<>>
  /\ \E i \in DOMAIN qParts : qParts[i] = PathwayFocusBlock
  /\ \A i \in DOMAIN qParts : qParts[i] # ProteinFocusBlock

\* the first focus that is true for the text, in the order gene, pathway,
\* protein
FirstFocus ==
  IF IsFocused("gene") THEN "gene"
  ELSE IF IsFocused("pathway") THEN "pathway"
  ELSE IF IsFocused("protein") THEN "protein"
  ELSE "none"

BlockOf(type) ==
  CASE type = "gene" -> GeneFocusBlock
    [] type = "pathway" -> PathwayFocusBlock
    [] type = "protein" -> ProteinFocusBlock

\* the entities of a type, and the fragment made of them
GroupOf(type) ==
  CASE type = "gene" -> qEntities.genes
    [] type = "pathway" -> qEntities.pathways
    [] type = "protein" -> qEntities.proteins
GroupFragment(type) ==
  OrGroup(TaggedAll(GroupOf(type), IF type = "gene" THEN GeneProteinName ELSE TitleAbstract))

\* C13 (as stated): whenever at least one of geneFocused, pathwayFocused,
\* proteinFocused is true for the query, generateRuleBasedQuery emits the
\* fixed vocabulary block of the first one that is true in the order gene,
\* pathway, protein, followed, when entities of that type exist, by a
\* fragment of those entities, with or without disease entities.
C13_FirstFocusBlockEmitted ==
  (pc = "built" /\ FirstFocus # "none") =>
    \E i \in DOMAIN qParts :
      /\ qParts[i] = BlockOf(FirstFocus)
      /\ GroupOf(FirstFocus) # <<>> =>
           (i + 1 \in DOMAIN qParts /\ qParts[i + 1] = GroupFragment(FirstFocus))

\* the focus whose vocabulary block was emitted
EmittedFocus ==
  IF \E i \in DOMAIN qParts : qParts[i] = GeneFocusBlock THEN "gene"
  ELSE IF \E i \in DOMAIN qParts : qParts[i] = PathwayFocusBlock THEN "pathway"
  ELSE IF \E i \in DOMAIN qParts : qParts[i] = ProteinFocusBlock THEN "protein"
  ELSE "none"

\* a disease or focus fragment was emitted
TopicEmitted == qEntities.diseases # <<>> \/ EmittedFocus # "none"

FragmentPlaces(type) == {i \in DOMAIN qParts : qParts[i] = GroupFragment(type)}

\* C14 (as stated): when generateRuleBasedQuery has emitted a disease or
\* focus fragment, every non-empty entity group among pathways, proteins and
\* genes whose type is not the chosen focus is appended as its own OR-joined
\* fragment, so each such group's terms appear in the result exactly once;
\* when no disease or focus fragment exists, no entity-group fragment is
\* appended at all.
C14_ResidualGroupsAppendedOnce ==
  pc = "built" =>
    \A type \in {"pathway", "protein", "gene"} :
      GroupOf(type) # <<>> =>
        IF TopicEmitted
          THEN type # EmittedFocus => Cardinality(FragmentPlaces(type)) = 1
          ELSE FragmentPlaces(type) = {}

ContainsWhitespace(s) == \E i \in DOMAIN s : IsSpace(s[i])
\* a text within a pair of double quotes
AlreadyQuoted(s) == Len(s) >= 2 /\ s[1] = "\"" /\ s[Len(s)] = "\""

\* C15 (as stated): when generateRuleBasedQuery produces no fragment, it
\* returns the original query wrapped in double quotes if the query contains
\* whitespace and is not already quoted, and the original query unmodified
\* otherwise; when it produces fragments the result is exactly those
\* fragments joined with ' AND ' in emission order.
C15_QuotedFallbackOrJoined ==
  pc = "built" =>
    IF qParts = <<>>
      THEN qBuilt = (IF ContainsWhitespace(qText) /\ ~AlreadyQuoted(qText)
                       THEN <<"\"">> \o qText \o <<"\"">>
                       ELSE qText)
      ELSE qBuilt = JoinText(qParts, <<" ", "A", "N", "D", " ">>)

(***************************************************************************)
(* Further claims about fetchCitations, checked under Spec                 *)
(***************************************************************************)

\* the identifiers of the search response that have an entry in the
\* summary body, in the order of the search response
WithEntry(ids, entries) == SelectSeq(ids, LAMBDA p : p \in DOMAIN entries)

\* C18 (as stated): given a search response listing identifiers I and a
\* summary body with entries for a subset S of I, the JSON path returns
\* exactly one citation per identifier in S, in the order of the search id
\* list, each with pmid equal to its identifier and url containing it;
\* identifiers without a summary entry are skipped without error.
C18_OneCitationPerEntry ==
  (parsed.path = "json" /\ parsed.body.json) =>
    LET found == WithEntry(parsed.ids, parsed.body.result)
    IN  /\ Len(parsed.out) = Len(found)
        /\ \A k \in DOMAIN parsed.out :
             /\ k \in DOMAIN found
             /\ parsed.out[k].pmid = found[k]
             /\ parsed.out[k].url = <<"https://pubmed.ncbi.nlm.nih.gov/", found[k], "/">>
        /\ jsonReturned.done => (~jsonReturned.caught /\ jsonReturned.citations = parsed.out)

\* useLlm as fetchCitations read it from the options of the call
UseLlmRequested == call.options.useLlm = "true"

\* C19 (as stated): when the LLM extraction or query generation is
\* requested and fails or is unavailable, fetchCitations continues with the
\* rule-based extractor and/or the rule-based query builder and still
\* returns a result; extractionMethod and queryMethod report 'openai' only
\* for a step whose LLM call succeeded, and when useLlm is false no LLM call
\* is made.
C19_LlmFailureFallsBack ==
  pc # "start" =>
    /\ pc # "raised"
    /\ ~UseLlmRequested => call.llmCalls = {}
    /\ call.extractionMethod = "openai" => "entities" \in call.llmCalls \cap call.llmOk
    /\ call.queryMethod = "openai" => "query" \in call.llmCalls \cap call.llmOk
    /\ "entities" \notin call.llmOk =>
         /\ call.extractionMethod = "regex"
         /\ call.entities = ExtractEntitiesUsingRegex(call.query)
    /\ "query" \notin call.llmOk =>
         /\ call.queryMethod = "rule"
         /\ call.finalQuery =
              FinalQuery(GenerateRuleBasedQuery(call.query, call.entities),
                         EffectivePrioritizeReviews(call.options.prioritizeReviews,
                                                    config.prioritizeReviews),
                         EffectiveMaxAgeYears(call.options.maxAgeYears, config.maxAgeYears))
    /\ pc = "done" =>
         /\ result.extractionMethod = call.extractionMethod
         /\ result.queryMethod = call.queryMethod

(***************************************************************************)
(* Claims about concurrent calls, checked under SpecConcurrent             *)
(***************************************************************************)

\* the entities and the rule-based query of each text the calls are made
\* with, computed once from the text
AloneEntities ==
  [q \in {c.query : c \in ConcurrentCalls} |-> ExtractEntitiesUsingRegex(q)]
AloneQuery ==
  [q \in {c.query : c \in ConcurrentCalls} |-> GenerateRuleBasedQuery(q, AloneEntities[q])]

\* what fetchCitations(query, options) returns when it is the only call of
\* the service and its requests are answered, in order, by the sequence as:
\* computed from the arguments and the answers alone, with the patterns as
\* the module created them
AloneResult(query, options, as) ==
  LET ents == AloneEntities[query]
      maxC == EffectiveMaxCitations(options.maxCitations, config.maxCitations)
      final == FinalQuery(AloneQuery[query],
                          EffectivePrioritizeReviews(options.prioritizeReviews,
                                                     config.prioritizeReviews),
                          EffectiveMaxAgeYears(options.maxAgeYears, config.maxAgeYears))
      jsonIds == IF as[1].threw THEN <<>> ELSE ParseSearchJson(as[1].data)
      jsonCs == IF jsonIds = <<>> \/ as[2].threw
                  THEN <<>>
                  ELSE ParseSummary(as[2].data, jsonIds)
      x == IF jsonIds = <<>> THEN 2 ELSE 3
      xmlIds == IF jsonCs # <<>> \/ as[x].threw THEN <<>> ELSE ParseSearchXml(as[x].data)
      xmlCs == IF xmlIds = <<>> \/ as[x + 1].threw
                 THEN <<>>
                 ELSE ParsePubmedXml(as[x + 1].data)
      limited == RankAndLimit(IF jsonCs # <<>> THEN jsonCs ELSE xmlCs, maxC)
  IN  [ query |-> query,
        extractedEntities |-> ents,
        optimizedQuery |-> final,
        citations |-> limited,
        genesInTitles |-> Unique(TitleGenes(limited)),
        extractionMethod |-> "regex",
        queryMethod |-> "rule" ]

\* C20: in every interleaving of the calls, a call that has returned has
\* returned what it would return alone against the same responses, a call
\* under way holds the entities and the query computed from its own
\* arguments, and the state the calls share is as the module created it.
C20_SameResultAsAlone ==
  pc = "concurrent" =>
    /\ lastIndex = ZeroLastIndex
    /\ \A i \in DOMAIN calls :
         /\ calls[i].pc # "start" =>
              /\ calls[i].entities = AloneEntities[calls[i].query]
              /\ calls[i].finalQuery =
                   AloneResult(calls[i].query, calls[i].options, <<Threw, Threw>>).optimizedQuery
         /\ calls[i].pc = "done" =>
              calls[i].result =
                AloneResult(calls[i].query, calls[i].options, calls[i].answers)

\* two calls with different queries, the second started while the first
\* was awaiting a response, both returned with citations
C20_Witness ==
  /\ pc = "concurrent"
  /\ calls[1].pc = "done"
  /\ calls[2].pc = "done"
  /\ calls[2].overlapped
  /\ calls[1].query # calls[2].query
  /\ calls[1].result.citations # <<>>
  /\ calls[2].result.citations # <<>>
  /\ calls[1].result.extractedEntities.genes # <<>>

(***************************************************************************)
(* Claims about the fallback and the requests of a call, checked under     *)
(* Spec                                                                    *)
(***************************************************************************)

XmlPathInvoked == \E r \in RequestsIssued : IsXmlRequest(r)
SummaryRequested == \E r \in RequestsIssued : r.url = "esummary.fcgi"

\* the JSON path had a non-empty identifier list and its summary body did
\* not parse; holds until the markup path parses a body of its own
SummaryParseError ==
  parsed.path = "json" /\ ~parsed.body.json /\ parsed.ids # <<>>

\* C21 (as stated): the markup path is invoked only when the search of the
\* JSON path produced zero results, and never when the JSON path had a
\* non-empty identifier list and then a parse error on the summary body.
C21_FallbackOnlyOnEmptySearch ==
  /\ XmlPathInvoked => ~SummaryRequested
  /\ SummaryParseError => ~XmlPathInvoked

\* C21 (amended): the markup path is invoked only when the JSON path
\* returned zero citations, and it is invoked when the JSON path had a
\* non-empty identifier list and then a parse error on the summary body:
\* that error makes the JSON path return an empty list as an empty search
\* does.
C21_FallbackOnParseErrorToo ==
  /\ XmlPathInvoked => (jsonReturned.done /\ jsonReturned.citations = <<>>)
  /\ SummaryParseError =>
       /\ SummaryRequested
       /\ jsonReturned.done /\ jsonReturned.citations = <<>>
       /\ XmlPathInvoked
       /\ pc = "done" => xmlReturned.done

\* C21 witness: the summary body did not parse for two identifiers, the
\* markup path ran and the call is done.
C21_Witness ==
  /\ SummaryParseError
  /\ Len(parsed.ids) = 2
  /\ XmlPathInvoked
  /\ xmlReturned.done
  /\ pc = "done"

(***************************************************************************)
(* Further claims about extractEntitiesUsingRegex, checked under SpecQuery *)
(***************************************************************************)

\* the phrases of the fixed vocabulary
IndicatorPhrases ==
  UNION { Range(QUERY_TYPE_INDICATORS[t]) : t \in DOMAIN QUERY_TYPE_INDICATORS }

\* C22 (as stated): every string of the keywords list that
\* extractEntitiesUsingRegex returns is an indicator phrase of the fixed
\* vocabulary that itself occurs, in any case, in the input text.
C22_KeywordsOccurInText ==
  pc = "regex" =>
    \A i \in DOMAIN qEntities.keywords :
      /\ qEntities.keywords[i] \in IndicatorPhrases
      /\ Includes(ToLowerCase(qText), qEntities.keywords[i])

(***************************************************************************)
(* Claims about the final query of fetchCitations, checked under SpecQuery *)
(***************************************************************************)
And == <<" ", "A", "N", "D", " ">>
ReviewFilter ==
  <<"R", "e", "v", "i", "e", "w", "[", "P", "u", "b", "l", "i", "c", "a", "t", "i", "o", "n",
    " ", "T", "y", "p", "e", "]">>
DateFilter(minYear, maxYear) ==
  <<"(">> \o YearString(minYear) \o <<"/", "0", "1", "/", "0", "1", "[", "P", "D", "A", "T", "]">>
    \o <<" ", ":", " ">>
    \o YearString(maxYear) \o <<"/", "1", "2", "/", "3", "1", "[", "P", "D", "A", "T", "]", ")">>

\* prioritizeReviews and maxAgeYears as the call has them: the option, or
\* the configured value when the option is not given
ReviewsWanted ==
  IF qOptions.prioritizeReviews = "undefined" THEN config.prioritizeReviews
  ELSE qOptions.prioritizeReviews = "true"
AgeWanted ==
  IF qOptions.maxAgeYears = Undefined THEN config.maxAgeYears ELSE qOptions.maxAgeYears.v

\* the base query holds a boolean operator (AND, OR between terms) or
\* starts with a parenthesis
HasOperator(q) == \E i \in 1..Len(q), w \in {And, <<" ", "O", "R", " ">>} : OccursAt(w, q, i)
WrappedBase(q) == IF HasOperator(q) \/ (q # <<>> /\ Head(q) = "(") THEN <<"(">> \o q \o <<")">> ELSE q

IsDetailRequest(r) == r.url \in {"esummary.fcgi", "efetch.fcgi"}

\* the identifiers of a search response, as the path of the request reads
\* them
SearchIds(r, data) ==
  IF r.retmode = "json" THEN ParseSearchJson(data) ELSE ParseSearchXml(data)

\* this step calls fetchWithRetry
NewRequest == callNo' = callNo + 1

\* the attempts logged do not overlap, and a detail request comes after a
\* successful search of its path
RoundTripsInOrder ==
  /\ \A i, j \in DOMAIN httpLog : i < j => httpLog[i].endedAt <= httpLog[j].startedAt
  /\ fpc = "inflight" => \A i \in DOMAIN httpLog : httpLog[i].endedAt <= startedAt
  /\ \A j \in DOMAIN httpLog :
       IsDetailRequest(httpLog[j].req) =>
         \E i \in 1..(j - 1) :
           /\ IsSearchRequest(httpLog[i].req)
           /\ httpLog[i].req.retmode = httpLog[j].req.retmode
           /\ ResponseOk(httpLog[i])
  /\ \A i \in DOMAIN httpLog :
       (IsSearchRequest(httpLog[i].req) /\ TerminalError(httpLog[i])) =>
         \A r \in RequestsIssued :
           IsDetailRequest(r) => r.retmode # httpLog[i].req.retmode

\* a request is issued when no other is under way; a detail request is
\* issued from a search of its path that has returned identifiers, and
\* carries them
RoundTripStep ==
  /\ NewRequest => fpc \in {"idle", "returned", "threw"}
  /\ (NewRequest /\ IsDetailRequest(freq')) =>
       /\ fpc = "returned"
       /\ IsSearchRequest(freq)
       /\ freq.retmode = freq'.retmode
       /\ ResponseOk(httpLog[Len(httpLog)])
       /\ SearchIds(freq, fresult.data) # <<>>
       /\ IdsOf(freq') = SearchIds(freq, fresult.data)
  /\ (fpc = "threw" \/ (fpc = "returned" /\ IsSearchRequest(freq)
                          /\ SearchIds(freq, fresult.data) = <<>>)) =>
       ~(NewRequest /\ IsDetailRequest(freq'))

\* C24: in each path the detail request (esummary or efetch) is issued only
\* after the search request has returned successfully, carries exactly the
\* identifiers that search returned, and is not issued when the search
\* returned no identifier or failed terminally; no two requests of a call
\* are in flight at the same time.
C24_RoundTripsSequential == []RoundTripsInOrder /\ [][RoundTripStep]_vars

\* C24 witness: both paths made both round trips: the JSON search returned
\* two identifiers and the summary request carried them but gave no
\* citation, then the markup search returned two and efetch is in flight
\* with them.
C24_Witness ==
  /\ pc = "xmlFetch" /\ fpc = "inflight"
  /\ Len(pmids) = 2
  /\ IdsOf(freq) = pmids
  /\ \E j \in DOMAIN httpLog :
       /\ httpLog[j].req.url = "esummary.fcgi"
       /\ Len(IdsOf(httpLog[j].req)) = 2
       /\ ResponseOk(httpLog[j])

(***************************************************************************)
(* Claims about generateResponseStream, checked under SpecStream           *)
(***************************************************************************)
IsCitationChunk(c) == c.id = "citation"
CitationChunksOf(q) == SelectSeq(q, IsCitationChunk)
ModelChunksOf(q) == SelectSeq(q, LAMBDA c : ~IsCitationChunk(c))

\* the three chunks of a citation block for the list cs: the header, the
\* content that holds the title of every citation, and the finish chunk
IsCitationBlock(cc, cs) ==
  /\ Len(cc) = 3
  /\ \A k \in 1..3 : cc[k].n = k /\ cc[k].model = sModel
  /\ cc[1].content = CitationsHeader /\ cc[1].finish_reason = None
  /\ cc[2].finish_reason = None
  /\ cc[2].content # NoCitationsFound
  /\ \A k \in DOMAIN cs : Includes(cc[2].content, cs[k].title)
  /\ cc[3].content = Undef /\ cc[3].finish_reason = "stop"

\* C25: the stream enqueues every chunk of the model before any citation
\* chunk and fetches citations only after the model stream has ended; it
\* then enqueues exactly three citation chunks, header, content and finish
\* ('stop'), when at least one citation was returned and none otherwise,
\* and closes the stream exactly once; a failure of fetchCitations closes
\* the stream and does not error it, a failure of the model stream errors
\* it and does not close it.
C25_CitationsAfterModelThenClose ==
  pc = "stream" =>
    /\ \A i, j \in DOMAIN sQueue :
         (i < j /\ IsCitationChunk(sQueue[i])) => IsCitationChunk(sQueue[j])
    /\ sFetch.state = "none" =>
         /\ CitationChunksOf(sQueue) = <<>>
         /\ sPc = "done" => (sState = "errored" /\ sErrors = 1 /\ sCloses = 0)
    /\ sFetch.state # "none" =>
         /\ sPc \in {"fetching", "done"}
         /\ Len(ModelChunksOf(sQueue)) = sFetch.modelChunks
         /\ sPc = "done" => (sState = "closed" /\ sCloses = 1 /\ sErrors = 0)
    /\ sFetch.state = "started" => CitationChunksOf(sQueue) = <<>>
    /\ sFetch.state = "returned" =>
         IF Len(sFetch.citations) >= 1
           THEN IsCitationBlock(CitationChunksOf(sQueue), sFetch.citations)
           ELSE CitationChunksOf(sQueue) = <<>>
    /\ sFetch.state = "threw" => (CitationChunksOf(sQueue) = <<>> /\ sPc = "done")
    /\ sPc # "done" => (sState = "readable" /\ sCloses = 0 /\ sErrors = 0)

\* C25 witness: two chunks of the model, then the block for two citations,
\* and the stream closed.
C25_Witness ==
  /\ sPc = "done"
  /\ sState = "closed"
  /\ sFetch.state = "returned"
  /\ Len(sFetch.citations) = 2
  /\ sFetch.modelChunks = 2
  /\ Len(sQueue) = 5

====
